---- MODULE Spec2Model ----
(***************************************************************************)
(* A model of the SOP matrix tools of this repository:                     *)
(*   src/app_exl.py             interactive parser of the SOP matrix       *)
(*   src/app_exl1.py            the same parser plus a sidebar filter pane *)
(*   src/app_exl2.py            learning-item parser and checkbox filter   *)
(*   src/preprocess_contexts.py batch exporter of the SOP matrix           *)
(*                                                                         *)
(* Text is a sequence of one-character strings, so that strip(), lower(),  *)
(* str() and float() are modelled by what they do to the characters.       *)
(* Column and row indices are 0-based as in the code; Cell(r, c) does the  *)
(* shift to TLA+'s 1-based sequences.                                      *)
(***************************************************************************)
EXTENDS Integers, Sequences, FiniteSets, TLC

VARIABLES
    v,          \* to_int_safe: the cell value it is called with
    ret,        \* to_int_safe: what the call returned ("pending" before it)
    raw,        \* the sheet as read with header=None: rows of cells
    ui,         \* app_exl.py: the outcome of one run of the script
    exp,        \* preprocess_contexts.py: the outcome of one run of the script
    out_df,     \* app_exl2.py: the cleaned learning-item records
    sel2,       \* app_exl2.py: the three checkbox selections
    filtered_df,\* app_exl2.py: indices of out_df kept by the mask
    rows1,      \* app_exl1.py: `filtered` as it enters the sidebar pane
    sel1,       \* app_exl1.py: the checkbox selections of the sidebar
    filtered1,  \* app_exl1.py: indices of rows1 kept by the mask
    text,       \* detect_regions: the notes cell it is called with
    found,      \* detect_regions: what the call returned ("pending" before it)
    cell,       \* extract_org_groups_practices: the cell it is called with
    org,        \* extract_org_groups_practices: what the call returned
    tc,         \* TextChunker.split: the state of one call
    learn,      \* app_exl2.py: the sheet's rows after header cleanup
    records,    \* app_exl2.py: the records built from them
    long_rows   \* app.py: one row of df and the sop_title read from it

\* the variables of the region scan, the organisation parser, the chunker and
\* the learning-item parser
later == <<text, found, cell, org, tc, learn, records, long_rows>>

vars == <<v, ret, raw, ui, exp, out_df, sel2, filtered_df, rows1, sel1, filtered1,
          text, found, cell, org, tc, learn, records, long_rows>>

----------------------------------------------------------------------------
(* Bounds of the model. *)

\* longest string handed to to_int_safe
MaxLen == 3
\* largest magnitude of a numeric cell, in units
MaxNum == 4
\* most data rows of a sheet
MaxDataRows == 2
\* most role columns of a sheet
MaxRoleCols == 2
\* most learning-item records of app_exl2.py's table
MaxRecords == 2
\* most rows that enter app_exl1.py's sidebar filters
MaxFiltered == 2
\* most fragments a notes text is put together from
MaxFragments == 3
\* most items of an Organisation list
MaxOrgItems == 2
\* longest text given to TextChunker.split
MaxTextLen == 6
\* largest size and overlap given to TextChunker.split
MaxSize == 4
\* most rows of the learning-item sheet after header cleanup
MaxLearnRows == 2

----------------------------------------------------------------------------
(* Text. *)

Digits == <<"0", "1", "2", "3", "4", "5", "6", "7", "8", "9">>

IsDigit(c) == \E i \in 1..10 : Digits[i] = c

DigitVal(c) == (CHOOSE i \in 1..10 : Digits[i] = c) - 1

IsSpace(c) == c = " "

UpperLetters == <<"A", "B", "C", "D", "E", "F", "G", "H", "I", "J", "K", "L", "M",
                  "N", "O", "P", "Q", "R", "S", "T", "U", "V", "W", "X", "Y", "Z">>

LowerLetters == <<"a", "b", "c", "d", "e", "f", "g", "h", "i", "j", "k", "l", "m",
                  "n", "o", "p", "q", "r", "s", "t", "u", "v", "w", "x", "y", "z">>

\* str.lower() of one character
LowerChar(c) ==
    IF \E i \in 1..26 : UpperLetters[i] = c
    THEN LowerLetters[CHOOSE i \in 1..26 : UpperLetters[i] = c]
    ELSE c

Lower(s) == [i \in 1..Len(s) |-> LowerChar(s[i])]

RECURSIVE LStrip(_)
LStrip(s) == IF s # <<>> /\ IsSpace(Head(s)) THEN LStrip(Tail(s)) ELSE s

RECURSIVE RStrip(_)
RStrip(s) ==
    IF s # <<>> /\ IsSpace(s[Len(s)]) THEN RStrip(SubSeq(s, 1, Len(s) - 1)) ELSE s

\* str.strip()
Strip(s) == RStrip(LStrip(s))

\* decimal digits of a natural number
RECURSIVE NatText(_)
NatText(n) == IF n < 10 THEN <<Digits[n + 1]>> ELSE NatText(n \div 10) \o <<Digits[(n % 10) + 1]>>

\* str() of a Python int
IntText(n) == IF n < 0 THEN <<"-">> \o NatText(-n) ELSE NatText(n)

\* all texts over alphabet A of length at most n
RECURSIVE TextsUpTo(_, _)
TextsUpTo(A, n) ==
    IF n = 0 THEN {<<>>}
    ELSE LET shorter == TextsUpTo(A, n - 1)
         IN  shorter \cup {Append(s, c) : s \in shorter, c \in A}

----------------------------------------------------------------------------
(* Cell values of a sheet read with dtype=object.                          *)
(*   nan    a blank cell (NaN / None): pd.isna is true                     *)
(*   int    a Python int n                                                 *)
(*   float  a finite Python float, n tenths (27 is 2.7)                    *)
(*   inf    a float infinity                                               *)
(*   str    a string s                                                     *)
(*   obj    any other object (a datetime, ...): int() of it raises         *)

NaN == [k |-> "nan", n |-> 0, s |-> <<>>]

IntCell(i) == [k |-> "int", n |-> i, s |-> <<>>]

FloatCell(t) == [k |-> "float", n |-> t, s |-> <<>>]

Inf == [k |-> "inf", n |-> 0, s |-> <<>>]

StrCell(t) == [k |-> "str", n |-> 0, s |-> t]

Obj == [k |-> "obj", n |-> 0, s |-> <<>>]

\* pd.isna(v)
isna(c) == c.k = "nan"

\* str(v), as astype(str) and str() give it
Str(c) ==
    CASE c.k = "nan" -> <<"n", "a", "n">>
      [] c.k = "int" -> IntText(c.n)
      [] c.k = "float" ->
            LET a == IF c.n < 0 THEN -c.n ELSE c.n
            IN  (IF c.n < 0 THEN <<"-">> ELSE <<>>)
                    \o NatText(a \div 10) \o <<".">> \o NatText(a % 10)
      [] c.k = "inf" -> <<"i", "n", "f">>
      [] c.k = "str" -> c.s
      [] OTHER -> <<"o", "b", "j">>

----------------------------------------------------------------------------
(* to_int_safe (src/app_exl.py 53-64, src/app_exl1.py 50-61).              *)
(* A result is an int, None, or the exception that left the function.      *)

None == [tag |-> "None", val |-> 0]

Raised == [tag |-> "raised", val |-> 0]

Pending == [tag |-> "pending", val |-> 0]

IntRes(i) == [tag |-> "int", val |-> i]

\* A float as sign, numerator and scale: value = (-1)^neg * num / scale.
Rat(neg, num, scale) == [neg |-> neg, num |-> num, scale |-> scale]

RECURSIVE DigitsValue(_)
DigitsValue(s) ==
    IF s = <<>> THEN 0 ELSE 10 * DigitsValue(SubSeq(s, 1, Len(s) - 1)) + DigitVal(s[Len(s)])

RECURSIVE Pow10(_)
Pow10(n) == IF n = 0 THEN 1 ELSE 10 * Pow10(n - 1)

DotCount(s) == Cardinality({i \in 1..Len(s) : s[i] = "."})

\* The decimal literals float() accepts among texts of digits, ".", a sign,
\* spaces and letters other than those of "inf", "nan", "e" and "_": an
\* optional sign, then digits with at most one ".", at least one digit.
\* float() strips surrounding whitespace itself.
IsFloatLiteral(s0) ==
    LET s == Strip(s0)
        body == IF s # <<>> /\ Head(s) \in {"-", "+"} THEN Tail(s) ELSE s
    IN  /\ body # <<>>
        /\ \A i \in 1..Len(body) : IsDigit(body[i]) \/ body[i] = "."
        /\ DotCount(body) <= 1
        /\ \E i \in 1..Len(body) : IsDigit(body[i])

\* float(s) for a literal s
FloatOf(s0) ==
    LET s == Strip(s0)
        neg == s # <<>> /\ Head(s) = "-"
        body == IF s # <<>> /\ Head(s) \in {"-", "+"} THEN Tail(s) ELSE s
        dot == IF DotCount(body) = 0 THEN Len(body) + 1
               ELSE CHOOSE i \in 1..Len(body) : body[i] = "."
        ip == SubSeq(body, 1, dot - 1)
        fp == SubSeq(body, dot + 1, Len(body))
    IN  Rat(neg, DigitsValue(ip \o fp), Pow10(Len(fp)))

\* int(x) of a finite float: truncation toward zero
Trunc(q) == IF q.neg THEN -(q.num \div q.scale) ELSE q.num \div q.scale

\* the float a "float" cell holds
CellFloat(c) == Rat(c.n < 0, IF c.n < 0 THEN -c.n ELSE c.n, 10)

\* the body of the try block: lines 55-62
to_int_try(c) ==
    IF isna(c) THEN None
    ELSE IF c.k = "str"
         THEN LET v2 == Strip(c.s)
              IN  IF v2 = <<>> THEN None
                  ELSE IF IsFloatLiteral(v2) THEN IntRes(Trunc(FloatOf(v2)))
                  ELSE Raised                     \* ValueError of float()
    ELSE CASE c.k = "int" -> IntRes(c.n)
           [] c.k = "float" -> IntRes(Trunc(CellFloat(c)))
           [] OTHER -> Raised                     \* OverflowError / TypeError of int()

\* a faulty variant: the function without its except clause
to_int_safe_no_except(c) == to_int_try(c)

\* try: ... except Exception: return None
to_int_safe(c) ==
    LET r == to_int_try(c) IN IF r = Raised THEN None ELSE r

----------------------------------------------------------------------------
(* The sheet (src/app_exl.py 30-32, 73; src/preprocess_contexts.py 17).    *)

HEADER_GROUP_ROW == 0

HEADER_COLS_ROW == 2

DATA_START_ROW == 3

\* "Roles are columns from index 4 (E) onward"
ROLE_OFFSET == 4

category_map ==
    [c \in {"Within 2 weeks", "Within 90 days", "Before task"} |->
        CASE c = "Within 2 weeks" -> 1
          [] c = "Within 90 days" -> 2
          [] OTHER -> 3]

\* raw.shape
nrows(sheet) == Len(sheet)

ncols(sheet) == IF Len(sheet) = 0 THEN 0 ELSE Len(sheet[1])

\* raw.iloc[r, c], 0-based
Cell(sheet, r, c) == sheet[r + 1][c + 1]

\* the positions of the role columns and of the data rows of data_df
RoleCols(sheet) == {c \in 0..(ncols(sheet) - 1) : c >= ROLE_OFFSET}

DataRows(sheet) == 0..(nrows(sheet) - DATA_START_ROW - 1)

\* data_df.iloc[r, c]: data_df = raw.iloc[DATA_START_ROW:].reset_index(drop=True)
DataCell(sheet, r, c) == Cell(sheet, DATA_START_ROW + r, c)

\* Series.fillna(method="ffill"): a NaN takes the last value before it that
\* is not NaN; a leading NaN stays
RECURSIVE ffill(_)
ffill(row) ==
    IF row = <<>> THEN <<>>
    ELSE LET init == ffill(SubSeq(row, 1, Len(row) - 1))
             last == row[Len(row)]
         IN  Append(init, IF isna(last) /\ init # <<>> THEN init[Len(init)] ELSE last)

\* line 81
group_row(sheet) == ffill(sheet[HEADER_GROUP_ROW + 1])

\* line 82
header_row(sheet) == [i \in 1..ncols(sheet) |-> Str(sheet[HEADER_COLS_ROW + 1][i])]

Ungrouped == <<"U", "n", "g", "r", "o", "u", "p", "e", "d">>

\* lines 98-101: the group name of column col_idx
group_name(group_row_, col_idx) ==
    LET raw_group_val == group_row_[col_idx + 1]
        name == IF ~isna(raw_group_val) THEN Strip(Str(raw_group_val)) ELSE <<>>
    IN  IF name = <<>> \/ Lower(name) \in {<<"n", "a", "n">>, <<"n", "o", "n", "e">>}
        THEN Ungrouped
        ELSE name

\* dict.setdefault(key, []).append(item)
setdefault_append(m, key, item) ==
    IF key \in DOMAIN m THEN [m EXCEPT ![key] = Append(@, item)]
    ELSE m @@ (key :> <<item>>)

\* lines 94-102: the loop over enumerate(header_row), from column col_idx on
RECURSIVE groups_map_from(_, _, _, _)
groups_map_from(header_row_, group_row_, col_idx, m) ==
    IF col_idx >= Len(header_row_) THEN m
    ELSE IF col_idx < ROLE_OFFSET THEN groups_map_from(header_row_, group_row_, col_idx + 1, m)
    ELSE groups_map_from(header_row_, group_row_, col_idx + 1,
            setdefault_append(m, group_name(group_row_, col_idx),
                              <<col_idx, header_row_[col_idx + 1]>>))

groups_map(sheet) == groups_map_from(header_row(sheet), group_row(sheet), 0, <<>>)

\* line 118: f"{role_name}  (col {col_idx})"
display_label(role_name, col_idx) ==
    role_name \o <<" ", " ", "(", "c", "o", "l", " ">> \o IntText(col_idx) \o <<")">>

\* lines 113-120: display_to_colidx of the group's role entries; a label
\* written twice keeps the later column, as a dict does
\* a faulty variant: col_idx left over from the loop of lines 95-102, its last column
entry_col_idx_stale(role_entries, i) == role_entries[Len(role_entries)][1]

\* line 116: the col_idx of the i-th (col_idx, role_name) of role_entries
entry_col_idx(role_entries, i) == role_entries[i][1]

RECURSIVE display_to_colidx_from(_, _, _)
display_to_colidx_from(role_entries, i, d) ==
    IF i > Len(role_entries) THEN d
    ELSE LET label == display_label(role_entries[i][2], role_entries[i][1])
             col == entry_col_idx(role_entries, i)
         IN  display_to_colidx_from(role_entries, i + 1,
                IF label \in DOMAIN d THEN [d EXCEPT ![label] = col]
                ELSE d @@ (label :> col))

display_to_colidx(role_entries) == display_to_colidx_from(role_entries, 1, <<>>)

\* a faulty variant: the comparison taken as "at least"
category_hit_at_least(coerced, category_value) ==
    coerced.tag = "int" /\ coerced.val >= category_value

\* line 150: role_series == category_value, elementwise; None equals no number
category_hit(coerced, category_value) ==
    coerced.tag = "int" /\ coerced.val = category_value

\* lines 147-150: the positions of the data_df rows kept, in source order
RECURSIVE filtered_rows(_, _, _, _)
filtered_rows(sheet, selected_col_idx, category_value, r) ==
    IF r >= nrows(sheet) - DATA_START_ROW THEN <<>>
    ELSE (IF category_hit(to_int_safe(DataCell(sheet, r, selected_col_idx)), category_value)
          THEN <<r>> ELSE <<>>)
         \o filtered_rows(sheet, selected_col_idx, category_value, r + 1)

----------------------------------------------------------------------------
(* Column resolution and the displayed table of app_exl.py (lines 42-51,    *)
(* 135-143, 154-193). data_df.columns is header_row, a list of strings.     *)

\* pick_column's None, and a header it returns
NoColumn == [some |-> FALSE, name |-> <<>>]

Column(name) == [some |-> TRUE, name |-> name]

\* line 44: cols_lower = {c.lower(): c for c in df.columns}; of the columns
\* with one lower-cased name the dict keeps the last
cols_lower(columns, key) ==
    LET hits == {i \in DOMAIN columns : Lower(columns[i]) = key}
    IN  IF hits = {} THEN NoColumn
        ELSE Column(columns[CHOOSE i \in hits : \A j \in hits : j <= i])

\* lines 45-51: the candidates in list order (none of the lists holds None)
RECURSIVE pick_from(_, _, _)
pick_from(columns, candidates, i) ==
    IF i > Len(candidates) THEN NoColumn
    ELSE LET hit == cols_lower(columns, Lower(candidates[i]))
         IN  IF hit.some THEN hit ELSE pick_from(columns, candidates, i + 1)

\* a faulty variant: the columns in grid order, each against every candidate
pick_column_by_header(columns, candidates) ==
    LET hits == {i \in DOMAIN columns :
                    \E k \in DOMAIN candidates : Lower(columns[i]) = Lower(candidates[k])}
    IN  IF hits = {} THEN NoColumn
        ELSE Column(columns[CHOOSE i \in hits : \A j \in hits : i <= j])

\* lines 42-51
pick_column(columns, candidates) == pick_from(columns, candidates, 1)

\* lines 135-139: the alias lists
bu_candidates ==
    <<<<"B", "u", "s", "i", "n", "e", "s", "s", " ", "U", "n", "i", "t">>,
      <<"B", "u", "s", "i", "n", "e", "s", "s", "U", "n", "i", "t">>,
      <<"B", "u", "s", "i", "n", "e", "s", "s", " ", "u", "n", "i", "t">>,
      <<"B", "u", "s", "i", "n", "e", "s", "s", "_", "u", "n", "i", "t">>>>

sop_type_candidates ==
    <<<<"S", "O", "P", " ", "T", "y", "p", "e">>,
      <<"S", "O", "P", "T", "y", "p", "e">>,
      <<"S", "O", "P", " ", "t", "y", "p", "e">>>>

number_candidates ==
    <<<<"N", "u", "m", "b", "e", "r">>,
      <<"N", "o">>,
      <<"I", "D">>,
      <<"S", "O", "P", " ", "N", "u", "m", "b", "e", "r">>,
      <<"S", "O", "P", " ", "N", "o">>,
      <<"N", "u", "m", "b", "e", "r", " ">>>>

title_candidates ==
    <<<<"T", "i", "t", "l", "e">>,
      <<"S", "O", "P", " ", "T", "i", "t", "l", "e">>,
      <<"N", "a", "m", "e">>,
      <<"T", "i", "t", "l", "e", " ">>>>

notes_candidates ==
    <<<<"N", "o", "t", "e", "s">>,
      <<"N", "o", "t", "e">>,
      <<"R", "e", "m", "a", "r", "k", "s">>,
      <<"R", "e", "g", "i", "o", "n", " ", "N", "o", "t", "e", "s">>,
      <<"C", "o", "m", "m", "e", "n", "t", "s">>>>

\* a faulty variant: no fallback to column D
title_col_no_fallback(columns) == pick_column(columns, title_candidates)

\* lines 138-143: the Title column, or column D when no alias matches
title_col(columns) ==
    LET picked == pick_column(columns, title_candidates)
    IN  IF ~picked.some /\ Len(columns) >= 4 THEN Column(columns[4]) ELSE picked

\* "if number_col and number_col in filtered.columns": not None, not ""
truthy_col(col) == col.some /\ col.name # <<>>

in_columns(columns, name) == \E i \in DOMAIN columns : columns[i] = name

\* lines 158-171: the labels selected for display
display_cols(columns) ==
    LET number_col == pick_column(columns, number_candidates)
        tcol == title_col(columns)
        picked ==
            (IF truthy_col(number_col) /\ in_columns(columns, number_col.name)
             THEN <<number_col.name>> ELSE <<>>)
            \o (IF truthy_col(tcol) /\ in_columns(columns, tcol.name)
                THEN <<tcol.name>> ELSE <<>>)
            \o SelectSeq(<<<<"B", "u", "s", "i", "n", "e", "s", "s", " ", "U", "n", "i", "t">>, <<"S", "O", "P", " ", "T", "y", "p", "e">>, <<"N", "o", "t", "e", "s">>>>,
                         LAMBDA c : in_columns(columns, c))
    IN  IF picked = <<>> THEN SubSeq(columns, 1, 4) ELSE picked

\* line 173: filtered[display_cols] takes, for each label in turn, every
\* column that carries it; the positions (from 1) of the columns taken
RECURSIVE table_columns(_, _)
table_columns(columns, labels) ==
    IF labels = <<>> THEN <<>>
    ELSE SelectSeq([i \in DOMAIN columns |-> i], LAMBDA i : columns[i] = Head(labels))
         \o table_columns(columns, Tail(labels))

\* lines 177-193: the columns of the table that end up labelled "Title"
\* (rename_map is a dict: title_col's entry replaces number_col's when the two
\* are one label), in table order
title_columns(columns) ==
    LET tcol == title_col(columns)
    IN  SelectSeq(table_columns(columns, display_cols(columns)),
                  LAMBDA i : \/ truthy_col(tcol) /\ columns[i] = tcol.name
                             \/ columns[i] = <<"T", "i", "t", "l", "e">>)

\* line 175: fillna("")
fillna_blank(c) == IF isna(c) THEN StrCell(<<>>) ELSE c

\* the Title cells of the table's row for data row r, one per Title column;
\* there is no table when filtered is empty (line 154)
table_titles(sheet, r) ==
    LET columns == header_row(sheet)
        tcs == title_columns(columns)
    IN  [n \in DOMAIN tcs |-> fillna_blank(DataCell(sheet, r, tcs[n] - 1))]

\* the outcome of a run of app_exl.py that st.stop() ended, and of no run yet
ui_of(stage) ==
    [stage |-> stage, groups_map |-> <<>>, selected_group |-> <<>>,
     selected_role_display |-> <<>>, selected_col_idx |-> -1,
     category_value |-> 0, filtered |-> <<>>,
     number_col |-> NoColumn, title_col |-> NoColumn, notes_col |-> NoColumn,
     bu_col |-> NoColumn, sop_type_col |-> NoColumn, titles |-> <<>>]

----------------------------------------------------------------------------
(* preprocess_contexts.py. It reads the same sheet (header=None) and tests  *)
(* nothing about its shape. A role column of the model holds a string in    *)
(* the header row, so pandas keeps the column's values as objects.          *)

\* lines 23-31: groups = df.iloc[0, 4:], roles = df.iloc[2, 4:], one entry
\* per role column in column order
role_info(sheet) ==
    [i \in 1..(ncols(sheet) - ROLE_OFFSET) |->
        [role |-> Cell(sheet, HEADER_COLS_ROW, ROLE_OFFSET + i - 1),
         group |-> Cell(sheet, HEADER_GROUP_ROW, ROLE_OFFSET + i - 1),
         col |-> ROLE_OFFSET + i - 1]]

\* line 45: str(assigned).strip() in ["1", "2", "3"]
is_assigned(assigned) == Strip(Str(assigned)) \in {<<"1">>, <<"2">>, <<"3">>}

\* lines 41-52: the sops of one role column, rows from DATA_START_ROW on.
\* row and col record the cell a sop was made from; the code's dicts hold
\* the other five fields.
RECURSIVE sops_of(_, _, _)
sops_of(sheet, info, r) ==
    IF r >= nrows(sheet) - DATA_START_ROW THEN <<>>
    ELSE (IF is_assigned(DataCell(sheet, r, info.col))
          THEN <<[BusinessUnit |-> DataCell(sheet, r, 0),
                  SOPType |-> DataCell(sheet, r, 1),
                  Number |-> DataCell(sheet, r, 2),
                  Title |-> DataCell(sheet, r, 3),
                  Group |-> info.group,
                  row |-> r, col |-> info.col]>>
          ELSE <<>>)
         \o sops_of(sheet, info, r + 1)

\* line 39: role_name = info["role"], the key of sops_per_role
sops_key(info) == info.role

\* lines 36-54: sops_per_role[role_name] = sops for each entry of role_info;
\* an assignment to a key already present replaces its list
RECURSIVE sops_per_role_from(_, _, _, _)
sops_per_role_from(sheet, role_info_, i, m) ==
    IF i > Len(role_info_) THEN m
    ELSE LET info == role_info_[i]
             sops == sops_of(sheet, info, 0)
             key == sops_key(info)
         IN  sops_per_role_from(sheet, role_info_, i + 1,
                IF key \in DOMAIN m THEN [m EXCEPT ![key] = sops]
                ELSE m @@ (key :> sops))

sops_per_role(sheet) == sops_per_role_from(sheet, role_info(sheet), 1, <<>>)

exp_of(status) == [status |-> status, role_info |-> <<>>, sops_per_role |-> <<>>]

----------------------------------------------------------------------------
(* The sheets the model reads. Row 0 holds the groups, row 1 is blank, row  *)
(* 2 the headers, rows from 3 on the data; columns 0-3 are business unit,   *)
(* SOP type, number and title.                                              *)

T_BusinessUnit == <<"B", "u", "s", "i", "n", "e", "s", "s", " ", "U", "n", "i", "t">>

T_SOPType == <<"S", "O", "P", " ", "T", "y", "p", "e">>

T_Number == <<"N", "u", "m", "b", "e", "r">>

T_Title == <<"T", "i", "t", "l", "e">>

T_SOPTitle == <<"S", "O", "P", " ", "T", "i", "t", "l", "e">>

T_TITLE == <<"T", "I", "T", "L", "E">>

T_title == <<"t", "i", "t", "l", "e">>

T_Heading == <<"H", "e", "a", "d", "i", "n", "g">>

T_Name == <<"N", "a", "m", "e">>

T_Notes == <<"N", "o", "t", "e", "s">>

T_SOP == <<"S", "O", "P">>

DescriptiveHeaders == <<T_BusinessUnit, T_SOPType, T_Number, T_Title>>

HeaderCells(nc, roles) ==
    [i \in 1..nc |-> IF i <= ROLE_OFFSET THEN StrCell(DescriptiveHeaders[i])
                     ELSE roles[i - ROLE_OFFSET]]

DataRowCells(nc, id, cells) ==
    [i \in 1..nc |->
        CASE i = 1 -> StrCell(<<"H", "R">>)
          [] i = 2 -> StrCell(<<"P">>)
          [] i = 3 -> id
          [] i = 4 -> StrCell(<<"T">> \o Str(id))
          [] OTHER -> cells[i - ROLE_OFFSET]]

\* the sheet of nr rows and nc columns with these group cells (one per
\* column), role header cells, row identifiers and role cells
Sheet(nr, nc, groups, roles, ids, cells) ==
    [r \in 1..nr |->
        CASE r = 1 -> groups
          [] r = 2 -> [i \in 1..nc |-> NaN]
          [] r = 3 -> HeaderCells(nc, roles)
          [] OTHER -> DataRowCells(nc, ids[r - DATA_START_ROW], cells[r - DATA_START_ROW])]

Id1 == StrCell(<<"0", "0", "1">>)

Id2 == StrCell(<<"0", "0", "2">>)

RoleM == StrCell(<<"M">>)

RoleS == StrCell(<<"S">>)

GroupA == StrCell(<<"A">>)

GroupB == StrCell(<<"B">>)

\* the sequences of length n that are a then b from the second member on, or
\* a twice and then b
Repeats(n, a, b) ==
    {[i \in 1..n |-> IF i = 1 THEN a ELSE b], [i \in 1..n |-> IF i <= 2 THEN a ELSE b]}

\* Sheets of every shape around the layout's limits: 2 rows and more, 4
\* columns and more; one group cell merged over the role columns or a second
\* group from column 5 on; role names and identifiers that repeat or not.
IsShapeSheet(sheet) ==
    \E nr \in (DATA_START_ROW - 1)..(DATA_START_ROW + MaxDataRows),
       nc \in ROLE_OFFSET..(ROLE_OFFSET + MaxRoleCols) :
        LET nd == IF nr > DATA_START_ROW THEN nr - DATA_START_ROW ELSE 0
            nrc == nc - ROLE_OFFSET
        IN  \E g2 \in IF nrc >= 2 THEN {NaN, GroupB} ELSE {NaN},
               roles \in Repeats(nrc, RoleM, RoleS),
               ids \in Repeats(nd, Id1, Id2),
               cells \in [1..nd -> [1..nrc -> {NaN, IntCell(1)}]] :
                sheet = Sheet(nr, nc,
                              [i \in 1..nc |-> IF i = ROLE_OFFSET + 1 THEN GroupA
                                               ELSE IF i = ROLE_OFFSET + 2 THEN g2 ELSE NaN],
                              roles, ids, cells)

\* the values a role cell of a workbook can hold
RoleCellValues ==
    {NaN, Obj, Inf}
        \cup {IntCell(i) : i \in (-1)..MaxNum}
        \cup {FloatCell(t) : t \in {10, 20, 27, 39, -10}}
        \cup {StrCell(t) : t \in {<<>>, <<" ">>, <<"1">>, <<"2", ".", "0">>, <<"2", ".", "7">>,
                                  <<" ", "3", " ">>, <<"4">>, <<"0">>, <<"a">>}}

\* Sheets of one role column whose cells take every kind of value
IsCellSheet(sheet) ==
    \E nd \in 1..MaxDataRows :
        \E cells \in [1..nd -> [1..1 -> RoleCellValues]] :
            sheet = Sheet(DATA_START_ROW + nd, ROLE_OFFSET + 1,
                          [i \in 1..(ROLE_OFFSET + 1) |-> IF i = ROLE_OFFSET + 1 THEN GroupA ELSE NaN],
                          <<RoleM>>, [r \in 1..nd |-> Id1], cells)

\* the values a cell of the group row can hold
GroupCellValues == {NaN, StrCell(<<>>), GroupA, GroupB}

\* Sheets of one data row whose group row takes every value in every column
IsGroupSheet(sheet) ==
    \E nc \in (ROLE_OFFSET + 1)..(ROLE_OFFSET + MaxRoleCols) :
        \E groups \in [1..nc -> GroupCellValues] :
            sheet = Sheet(DATA_START_ROW + 1, nc, groups,
                          [i \in 1..(nc - ROLE_OFFSET) |-> IF i = 1 THEN RoleM ELSE RoleS],
                          <<Id1>>, <<[i \in 1..(nc - ROLE_OFFSET) |-> IntCell(1)]>>)

----------------------------------------------------------------------------
(* The runs of the two scripts on a sheet. *)

\* what the variables of the other programs hold while the sheet tools run
IdleCoerce == v = NaN /\ ret = Pending

IdleSheet == raw = <<>> /\ ui = ui_of("loaded") /\ exp = exp_of("idle")

NoSel2 ==
    [ran |-> FALSE, selected_practices |-> {}, selected_groups |-> {}, selected_roles |-> {}]

NoSel1 ==
    [ran |-> FALSE, selected_bu |-> {}, selected_sop |-> {},
     region_present |-> {}, selected_regions |-> {}]

IdleFilter2 == out_df = <<>> /\ sel2 = NoSel2 /\ filtered_df = <<>>

IdleFilter1 == rows1 = <<>> /\ sel1 = NoSel1 /\ filtered1 = <<>>

\* detect_regions has not returned
NoTags == [done |-> FALSE, s |-> <<>>]

IdleRegions == text = NaN /\ found = NoTags

NoOrg == [ran |-> FALSE, groups |-> {}, practices |-> {}]

IdleOrg == cell = NaN /\ org = NoOrg

NoCall == [pc |-> "idle", text |-> <<>>, size |-> 0, overlap |-> 0, k |-> 0, chunks |-> <<>>]

IdleChunker == tc = NoCall

NoRecords == [ran |-> FALSE, records |-> <<>>, cleaned |-> <<>>]

IdleLearn == learn = <<>> /\ records = NoRecords

NoRow == [ran |-> FALSE, columns |-> <<>>, row |-> <<>>, sop_title |-> NaN]

IdleApp == long_rows = NoRow

IdleLater == IdleRegions /\ IdleOrg /\ IdleChunker /\ IdleLearn /\ IdleApp

InitSheet ==
    /\ IsShapeSheet(raw) \/ IsCellSheet(raw)
    /\ ui = ui_of("loaded")
    /\ exp = exp_of("idle")
    /\ IdleCoerce /\ IdleFilter2 /\ IdleFilter1 /\ IdleLater

\* One run of app_exl.py, top to bottom, with the three selectbox choices.
\* Streamlit runs the whole script again on every change of a widget: each
\* run starts from the sheet alone, so a behaviour holds one run.
AppExl ==
    /\ exp.status = "idle"
    /\ ui.stage = "loaded"
    /\ IF nrows(raw) <= HEADER_COLS_ROW
       THEN ui' = ui_of("layout_error")                       \* lines 76-78
       ELSE IF Len(header_row(raw)) <= ROLE_OFFSET
       THEN ui' = ui_of("layout_error")                       \* lines 89-91
       ELSE LET gm == groups_map(raw)
            IN  \E selected_group \in DOMAIN gm :
              LET d == display_to_colidx(gm[selected_group])
              IN  \E selected_role_display \in DOMAIN d, sop_category \in DOMAIN category_map :
                LET filtered == filtered_rows(raw, d[selected_role_display],
                                              category_map[sop_category], 0)
                    columns == header_row(raw)
                IN  ui' = [stage |-> "done",
                           groups_map |-> gm,
                           selected_group |-> selected_group,
                           selected_role_display |-> selected_role_display,
                           selected_col_idx |-> d[selected_role_display],
                           category_value |-> category_map[sop_category],
                           filtered |-> filtered,
                           bu_col |-> pick_column(columns, bu_candidates),
                           sop_type_col |-> pick_column(columns, sop_type_candidates),
                           number_col |-> pick_column(columns, number_candidates),
                           title_col |-> title_col(columns),
                           notes_col |-> pick_column(columns, notes_candidates),
                           titles |-> [n \in DOMAIN filtered |->
                                            table_titles(raw, filtered[n])]]
    /\ UNCHANGED <<v, ret, raw, exp, out_df, sel2, filtered_df, rows1, sel1, filtered1, later>>

\* One run of preprocess_contexts.py up to the dict of line 54.
\* df.iloc[2, 4:] raises IndexError on a sheet of fewer than 3 rows.
Preprocess ==
    /\ exp.status = "idle"
    /\ ui.stage = "loaded"
    /\ exp' = IF nrows(raw) <= HEADER_COLS_ROW THEN exp_of("crashed")
              ELSE [status |-> "done",
                    role_info |-> role_info(raw),
                    sops_per_role |-> sops_per_role(raw)]
    /\ UNCHANGED <<v, ret, raw, ui, out_df, sel2, filtered_df, rows1, sel1, filtered1, later>>

NextSheet == AppExl \/ Preprocess

Spec == InitSheet /\ [][NextSheet]_vars

\* the same two scripts on the sheets that vary the group row
InitGroups ==
    /\ IsGroupSheet(raw)
    /\ ui = ui_of("loaded")
    /\ exp = exp_of("idle")
    /\ IdleCoerce /\ IdleFilter2 /\ IdleFilter1 /\ IdleLater

SpecGroups == InitGroups /\ [][NextSheet]_vars

----------------------------------------------------------------------------
(* The title of a row. app_exl.py shows the cell under title_col; app.py    *)
(* (lines 84-85) reads sop_title from the row with an "or" chain.           *)

\* what row.get gives for a label the row does not have
NoneCell == [k |-> "none", n |-> 0, s |-> <<>>]

\* Python's truth value of a cell: None, "", 0 and 0.0 are false; NaN is a
\* float that is not zero, so it is true
truthy(c) ==
    CASE c.k = "none" -> FALSE
      [] c.k = "str" -> c.s # <<>>
      [] c.k \in {"int", "float"} -> c.n # 0
      [] OTHER -> TRUE

\* row.get(label): the labels of df are distinct (read_excel renames repeats)
row_get(columns, row, label) ==
    IF in_columns(columns, label)
    THEN row[CHOOSE i \in DOMAIN columns : columns[i] = label]
    ELSE NoneCell

\* app.py line 85: row.get("Title") or row.get("SOP") or row.get(df.columns[0])
sop_title(columns, row) ==
    LET a == row_get(columns, row, T_Title)
        b == row_get(columns, row, T_SOP)
    IN  IF truthy(a) THEN a ELSE IF truthy(b) THEN b ELSE row[1]

TitleCellValues == {NaN, StrCell(<<>>), StrCell(<<"T">>)}

\* the headers tried in column A and in column D of the matrix sheet
HeadersA == {StrCell(T_BusinessUnit), StrCell(T_Name), StrCell(T_TITLE)}

HeadersD == {StrCell(T_Title), StrCell(T_title), StrCell(T_SOPTitle),
             StrCell(T_Heading), NaN}

\* a matrix sheet of one data row and one role column whose headers and
\* cells of columns A and D vary
IsTitleSheet(sheet) ==
    \E hA \in HeadersA, hD \in HeadersD, vA \in TitleCellValues, vD \in TitleCellValues,
       code \in {IntCell(1), IntCell(2)} :
        sheet = << <<NaN, NaN, NaN, NaN, GroupA>>,
                   <<NaN, NaN, NaN, NaN, NaN>>,
                   <<hA, StrCell(T_SOPType), StrCell(T_Number), hD, RoleM>>,
                   <<vA, StrCell(<<"P">>), Id1, vD, code>> >>

\* the rows of app.py's df: four labelled columns
AppColumns ==
    {<<T_Number, T_Title, T_Notes, T_Name>>, <<T_Number, T_SOP, T_Title, T_Name>>,
     <<T_SOP, T_Number, T_Notes, T_Name>>, <<T_Number, T_Heading, T_Notes, T_Name>>}

AppCellValues == {NaN, StrCell(<<>>), StrCell(<<"T">>), IntCell(0)}

InitTitle ==
    /\ \/ /\ IsTitleSheet(raw)
          /\ long_rows = NoRow
       \/ /\ raw = <<>>
          /\ \E columns \in AppColumns, row \in [1..4 -> AppCellValues] :
                long_rows = [ran |-> FALSE, columns |-> columns, row |-> row,
                             sop_title |-> NaN]
    /\ ui = ui_of("loaded")
    /\ exp = exp_of("idle")
    /\ IdleCoerce /\ IdleFilter2 /\ IdleFilter1
    /\ IdleRegions /\ IdleOrg /\ IdleChunker /\ IdleLearn

\* the body of the loop of app.py line 84 for one row
AppLongRows ==
    /\ long_rows.columns # <<>>
    /\ ~long_rows.ran
    /\ long_rows' = [long_rows EXCEPT !.ran = TRUE,
                        !.sop_title = sop_title(long_rows.columns, long_rows.row)]
    /\ UNCHANGED <<v, ret, raw, ui, exp, out_df, sel2, filtered_df, rows1, sel1, filtered1,
                   text, found, cell, org, tc, learn, records>>

\* app_exl.py and the exporter need a sheet
NextTitle == (raw # <<>> /\ NextSheet) \/ AppLongRows

SpecTitle == InitTitle /\ [][NextTitle]_vars

----------------------------------------------------------------------------
(* What the two scripts make of a sheet, as facts.                          *)

CategoryValues == {category_map[c] : c \in DOMAIN category_map}

\* the applicability level of a cell: its coerced value when that is 1, 2 or
\* 3 and the cell is not blank, else 0
Level(c) ==
    LET coerced == to_int_safe(c)
    IN  IF ~isna(c) /\ coerced.tag = "int" /\ coerced.val \in {1, 2, 3} THEN coerced.val ELSE 0

\* Every row app_exl.py shows for some choice of group, role and category:
\* one fact per choice and position in `filtered`.
AppFacts(sheet) ==
    LET gm == groups_map(sheet)
    IN  UNION {UNION {UNION {
            LET d == display_to_colidx(gm[g])
                f == filtered_rows(sheet, d[label], k, 0)
            IN  {[group |-> g, label |-> label, level |-> k, pos |-> i,
                  row |-> f[i], col |-> d[label],
                  sop_id |-> DataCell(sheet, f[i], 2),
                  role_name |-> header_row(sheet)[d[label] + 1]] : i \in DOMAIN f}
            : k \in CategoryValues}
            : label \in DOMAIN display_to_colidx(gm[g])}
            : g \in DOMAIN gm}

\* Every sop of the lists preprocess_contexts.py ends with: one fact per key
\* and position.
ExpFacts ==
    UNION {{[role_name |-> key, pos |-> i,
             row |-> exp.sops_per_role[key][i].row,
             col |-> exp.sops_per_role[key][i].col,
             sop_id |-> exp.sops_per_role[key][i].Number]
            : i \in DOMAIN exp.sops_per_role[key]}
            : key \in DOMAIN exp.sops_per_role}

FactsOfCell(facts, r, c) == {f \in facts : f.row = r /\ f.col = c}

Range(f) == {f[i] : i \in DOMAIN f}

\* where the group index lists column c: the (group, position) pairs
Listings(gm, c) ==
    UNION {{<<g, i>> : i \in {j \in DOMAIN gm[g] : gm[g][j][1] = c}} : g \in DOMAIN gm}

----------------------------------------------------------------------------
(* Claims about the sheet parsers. *)

\* C1 (as claimed): every (data row, role column) cell that is not blank and
\* coerces to 1, 2 or 3 gives exactly one fact, and every other cell none, in
\* the interactive parser and in the batch exporter.
C1_OneFactPerValidCell ==
    /\ ui.stage = "done" =>
            \A r \in DataRows(raw), c \in RoleCols(raw) :
                Cardinality(FactsOfCell(AppFacts(raw), r, c))
                    = IF Level(DataCell(raw, r, c)) # 0 THEN 1 ELSE 0
    /\ exp.status = "done" =>
            \A r \in DataRows(raw), c \in RoleCols(raw) :
                Cardinality(FactsOfCell(ExpFacts, r, c))
                    = IF Level(DataCell(raw, r, c)) # 0 THEN 1 ELSE 0

\* The part of C1 that the interactive parser satisfies.
C1_InteractiveParserPart ==
    ui.stage = "done" =>
        \A r \in DataRows(raw), c \in RoleCols(raw) :
            Cardinality(FactsOfCell(AppFacts(raw), r, c))
                = IF Level(DataCell(raw, r, c)) # 0 THEN 1 ELSE 0

\* C2 (as claimed): two role columns with the same role name stay two
\* columns: each is listed once in the group index, each can be selected and
\* selects its own cells, and each keeps its own list of facts in the
\* exporter's per-role lists.
C2_DuplicateRoleNamesStayDistinct ==
    \A c1, c2 \in RoleCols(raw) :
        (c1 # c2 /\ nrows(raw) > HEADER_COLS_ROW
            /\ Cell(raw, HEADER_COLS_ROW, c1) = Cell(raw, HEADER_COLS_ROW, c2)) =>
            /\ ui.stage = "done" =>
                    /\ Cardinality(Listings(ui.groups_map, c1)) = 1
                    /\ \A r \in DataRows(raw) :
                            Level(DataCell(raw, r, c1)) # 0 =>
                                FactsOfCell(AppFacts(raw), r, c1) # {}
            /\ exp.status = "done" =>
                    \A r \in DataRows(raw) :
                        is_assigned(DataCell(raw, r, c1)) => FactsOfCell(ExpFacts, r, c1) # {}

\* The part of C2 that the interactive parser satisfies.
C2_InteractiveParserPart ==
    \A c1, c2 \in RoleCols(raw) :
        (c1 # c2 /\ ui.stage = "done"
            /\ Cell(raw, HEADER_COLS_ROW, c1) = Cell(raw, HEADER_COLS_ROW, c2)) =>
            /\ Cardinality(Listings(ui.groups_map, c1)) = 1
            /\ \A r \in DataRows(raw) :
                    Level(DataCell(raw, r, c1)) # 0 => FactsOfCell(AppFacts(raw), r, c1) # {}

\* a blank group cell in the claim's sense: NaN, or a string of spaces only
IsBlankGroupCell(c) == isna(c) \/ (c.k = "str" /\ Strip(c.s) = <<>>)

\* the nearest cell of the group row at or left of column c that is not
\* blank, as text, scanning from column 0; "Ungrouped" when there is none
RECURSIVE NearestGroup(_, _)
NearestGroup(groups, c) ==
    IF c < 0 THEN Ungrouped
    ELSE IF ~IsBlankGroupCell(groups[c + 1]) THEN Strip(Str(groups[c + 1]))
    ELSE NearestGroup(groups, c - 1)

\* the same with only NaN taken as blank, which is what fillna fills
RECURSIVE NearestNotNaN(_, _)
NearestNotNaN(groups, c) ==
    IF c < 0 THEN NaN
    ELSE IF ~isna(groups[c + 1]) THEN groups[c + 1]
    ELSE NearestNotNaN(groups, c - 1)

\* the group text a script gives a column: app_exl.py's key of groups_map,
\* preprocess_contexts.py's info["group"]
AppGroupOf(c) == CHOOSE g \in DOMAIN ui.groups_map : \E i \in DOMAIN ui.groups_map[g] : ui.groups_map[g][i][1] = c

\* C3 (as claimed): the group of every role column is the nearest non-blank
\* group cell at or left of it, NaN and blank strings both being blank, and
\* "Ungrouped" when there is none.
C3_GroupIsNearestNonBlankToTheLeft ==
    /\ ui.stage = "done" =>
            \A c \in RoleCols(raw) : AppGroupOf(c) = NearestGroup(raw[HEADER_GROUP_ROW + 1], c)
    /\ exp.status = "done" =>
            \A i \in DOMAIN exp.role_info :
                LET g == exp.role_info[i].group
                IN  (IF IsBlankGroupCell(g) THEN Ungrouped ELSE Strip(Str(g)))
                        = NearestGroup(raw[HEADER_GROUP_ROW + 1], exp.role_info[i].col)

\* What app_exl.py does instead: it fills NaN cells only, and a column whose
\* filled cell is a blank string is "Ungrouped".
C3_InteractiveParserFillsNaNOnly ==
    ui.stage = "done" =>
        \A c \in RoleCols(raw) :
            LET g == NearestNotNaN(raw[HEADER_GROUP_ROW + 1], c)
            IN  AppGroupOf(c) = IF IsBlankGroupCell(g) THEN Ungrouped ELSE Strip(Str(g))

\* C8: a row is shown for the selected role column under category k only if
\* k is 1, 2 or 3 and the cell's coerced value is k; a cell coerced to another
\* integer or to None is shown under no category; the exporter lists a row
\* only if its cell coerces to 1, 2 or 3; and no run of a sheet of the
\* documented shape ends in an error.
C8_SelectedOnlyUnderItsCategory ==
    /\ ui.stage = "done" =>
            /\ ui.category_value \in {1, 2, 3}
            /\ \A i \in DOMAIN ui.filtered :
                    to_int_safe(DataCell(raw, ui.filtered[i], ui.selected_col_idx))
                        = IntRes(ui.category_value)
            /\ \A f \in AppFacts(raw) :
                    to_int_safe(DataCell(raw, f.row, f.col)) = IntRes(f.level)
    /\ exp.status = "done" =>
            \A f \in ExpFacts : to_int_safe(DataCell(raw, f.row, f.col)).val \in {1, 2, 3}
    /\ (nrows(raw) >= DATA_START_ROW /\ ncols(raw) > ROLE_OFFSET) =>
            ui.stage # "layout_error" /\ exp.status # "crashed"

\* C8's case: a run shows a row and leaves out a row whose cell coerces to
\* an integer outside 1..3, and one whose cell coerces to None
C8_Witness ==
    /\ ui.stage = "done"
    /\ ui.filtered # <<>>
    /\ \E r \in DataRows(raw) :
            /\ r \notin Range(ui.filtered)
            /\ to_int_safe(DataCell(raw, r, ui.selected_col_idx)).tag = "int"
            /\ to_int_safe(DataCell(raw, r, ui.selected_col_idx)).val \notin {1, 2, 3}
            /\ \A f \in AppFacts(raw) : f.row # r

\* the same for a cell that coerces to None, which an unparseable string does
C8_WitnessNone ==
    /\ ui.stage = "done"
    /\ ui.filtered # <<>>
    /\ \E r \in DataRows(raw) :
            /\ DataCell(raw, r, ui.selected_col_idx).k = "str"
            /\ to_int_safe(DataCell(raw, r, ui.selected_col_idx)) = None
            /\ \A f \in AppFacts(raw) : f.row # r

\* C9 (as claimed): a run ends in a layout error, with no role columns and no
\* facts, exactly when the sheet has fewer than 3 rows or fewer than 5
\* columns; otherwise it parses the sheet, and the three row indices are in
\* order within the sheet.
C9_LayoutErrorExactlyOnShortSheets ==
    LET short == nrows(raw) < HEADER_COLS_ROW + 1 \/ ncols(raw) < ROLE_OFFSET + 1
    IN  /\ ui.stage # "loaded" =>
                /\ ui.stage = "layout_error" <=> short
                /\ ui.stage = "layout_error" => ui.groups_map = <<>> /\ ui.filtered = <<>>
                /\ ui.stage = "done" =>
                        /\ HEADER_GROUP_ROW < HEADER_COLS_ROW
                        /\ HEADER_COLS_ROW < DATA_START_ROW
                        /\ DATA_START_ROW <= nrows(raw)
        /\ exp.status # "idle" =>
                /\ exp.status = "crashed" <=> short
                /\ exp.status = "crashed" => exp.role_info = <<>> /\ exp.sops_per_role = <<>>

\* The part of C9 that the interactive parser satisfies.
C9_InteractiveParserPart ==
    LET short == nrows(raw) < HEADER_COLS_ROW + 1 \/ ncols(raw) < ROLE_OFFSET + 1
    IN  ui.stage # "loaded" =>
            /\ ui.stage = "layout_error" <=> short
            /\ ui.stage = "layout_error" => ui.groups_map = <<>> /\ ui.filtered = <<>>
            /\ ui.stage = "done" =>
                    /\ HEADER_GROUP_ROW < HEADER_COLS_ROW
                    /\ HEADER_COLS_ROW < DATA_START_ROW
                    /\ DATA_START_ROW <= nrows(raw)

\* two facts that are not the same fact
Pairs(facts) == {p \in facts \X facts : p[1] # p[2]}

\* C10 (as claimed): no two facts of one sheet have the same sop_id and the
\* same role name.
C10_AtMostOneFactPerSopIdAndRole ==
    /\ ui.stage = "done" =>
            \A p \in Pairs(AppFacts(raw)) :
                ~(p[1].sop_id = p[2].sop_id /\ p[1].role_name = p[2].role_name)
    /\ exp.status = "done" =>
            \A p \in Pairs(ExpFacts) :
                ~(p[1].sop_id = p[2].sop_id /\ p[1].role_name = p[2].role_name)

\* no two data rows with the same identifier, no two role columns with the
\* same role name
DistinctSopIds ==
    \A r1, r2 \in DataRows(raw) : r1 # r2 => DataCell(raw, r1, 2) # DataCell(raw, r2, 2)

DistinctRoleNames ==
    \A c1, c2 \in RoleCols(raw) :
        c1 # c2 => header_row(raw)[c1 + 1] # header_row(raw)[c2 + 1]

\* C10 (amended): no two facts of one sheet come from the same data row and
\* role column, so no two have the same sop_id and role name on a sheet whose
\* data rows have distinct sop_ids and whose role columns have distinct names.
C10_AtMostOneFactPerRowAndColumn ==
    /\ ui.stage = "done" =>
            /\ \A i, j \in DOMAIN ui.filtered : i # j => ui.filtered[i] # ui.filtered[j]
            /\ \A p \in Pairs(AppFacts(raw)) :
                    /\ ~(p[1].row = p[2].row /\ p[1].col = p[2].col)
                    /\ (DistinctSopIds /\ DistinctRoleNames) =>
                            ~(p[1].sop_id = p[2].sop_id /\ p[1].role_name = p[2].role_name)
    /\ exp.status = "done" =>
            \A p \in Pairs(ExpFacts) :
                /\ ~(p[1].row = p[2].row /\ p[1].col = p[2].col)
                /\ (DistinctSopIds /\ DistinctRoleNames) =>
                        ~(p[1].sop_id = p[2].sop_id /\ p[1].role_name = p[2].role_name)

\* C10's case: a sheet of distinct sop_ids and role names with two facts in
\* one role column and two in one data row
C10_Witness ==
    /\ ui.stage = "done"
    /\ DistinctSopIds /\ DistinctRoleNames
    /\ \E p \in Pairs(AppFacts(raw)) : p[1].col = p[2].col
    /\ \E p \in Pairs(AppFacts(raw)) : p[1].row = p[2].row

----------------------------------------------------------------------------
(* Calls of to_int_safe on single values. *)

\* the characters of the strings handed to to_int_safe
CoerceAlphabet == {" ", "-", "+", ".", "0", "1", "2", "3", "7", "a"}

CoerceValues ==
    {NaN, Obj, Inf}
        \cup {IntCell(i) : i \in (-MaxNum)..MaxNum}
        \cup {FloatCell(t) : t \in (-10 * MaxNum)..(10 * MaxNum)}
        \cup {StrCell(t) : t \in TextsUpTo(CoerceAlphabet, MaxLen)}

InitCoerce ==
    /\ v \in CoerceValues
    /\ ret = Pending
    /\ IdleSheet /\ IdleFilter2 /\ IdleFilter1 /\ IdleLater

\* role_series = data_df.iloc[:, selected_col_idx].apply(to_int_safe), one cell
ToIntSafeCall ==
    /\ ret = Pending
    /\ ret' = to_int_safe(v)
    /\ UNCHANGED <<v, raw, ui, exp, out_df, sel2, filtered_df, rows1, sel1, filtered1, later>>

NextCoerce == ToIntSafeCall

SpecCoerce == InitCoerce /\ [][NextCoerce]_vars

\* i is q cut to an integer toward zero
IsTruncationOf(i, q) ==
    LET a == IF i < 0 THEN -i ELSE i
    IN  /\ a * q.scale <= q.num
        /\ q.num < (a + 1) * q.scale
        /\ i < 0 => q.neg
        /\ i > 0 => ~q.neg

\* C7: to_int_safe returns an integer or None for every value and never
\* raises: None for a blank cell; the number cut toward zero for an int or a
\* finite float; for a string, None when it is empty after strip() or is no
\* float literal, else its float value cut toward zero; None for any value
\* int() rejects.
C7_CoercionIsTotal ==
    ret # Pending =>
        /\ ret.tag \in {"int", "None"}
        /\ ret.tag = "None" => ret = None
        /\ v.k = "nan" => ret = None
        /\ v.k = "int" => ret = IntRes(v.n)
        /\ v.k = "float" => ret.tag = "int" /\ IsTruncationOf(ret.val, CellFloat(v))
        /\ v.k \in {"inf", "obj"} => ret = None
        /\ v.k = "str" =>
                /\ Strip(v.s) = <<>> => ret = None
                /\ ~IsFloatLiteral(Strip(v.s)) => ret = None
                /\ IsFloatLiteral(Strip(v.s)) =>
                        ret.tag = "int" /\ IsTruncationOf(ret.val, FloatOf(Strip(v.s)))

\* C7's case: a string that is not empty and is no number has come back as
\* None
C7_Witness ==
    /\ ret = None
    /\ v.k = "str"
    /\ Strip(v.s) # <<>>
    /\ ~IsFloatLiteral(v.s)

----------------------------------------------------------------------------
(* The checkbox filter of app_exl2.py (lines 246-301). Groups, Practices    *)
(* and Roles of a record are sorted lists without repeats (lines 184-186,   *)
(* 236); the filter tests only whether they are empty and what they hold,   *)
(* so the model keeps them as sets. Rows are numbered from 1.               *)

\* lines 286-291
row_matches_filter_list(row_list, selected_list) ==
    IF selected_list = {} THEN TRUE
    ELSE IF row_list = {} THEN FALSE
    ELSE \E item \in row_list : item \in selected_list

\* lines 249-251: the values offered as checkboxes
all_practices(df) == UNION {df[i].Practices : i \in DOMAIN df}

all_groups(df) == UNION {df[i].Groups : i \in DOMAIN df}

all_roles(df) == UNION {df[i].Roles : i \in DOMAIN df}

\* lines 293-300: the mask of one row
mask2(r, selected_practices, selected_groups, selected_roles) ==
    /\ row_matches_filter_list(r.Practices, selected_practices)
    /\ row_matches_filter_list(r.Groups, selected_groups)
    /\ row_matches_filter_list(r.Roles, selected_roles)

\* a faulty variant: the rows kept, the last one first
RECURSIVE Kept_last_first(_, _)
Kept_last_first(n, keep) ==
    IF n = 0 THEN <<>>
    ELSE (IF keep[n] THEN <<n>> ELSE <<>>) \o Kept_last_first(n - 1, keep)

\* df[mask]: the rows whose mask is true, in the order of df
RECURSIVE Kept(_, _)
Kept(n, keep) ==
    IF n = 0 THEN <<>>
    ELSE Kept(n - 1, keep) \o (IF keep[n] THEN <<n>> ELSE <<>>)

LearningRecords ==
    [Groups : SUBSET {"G1", "G2"}, Practices : SUBSET {"P1"}, Roles : SUBSET {"R1"}]

InitFilter2 ==
    /\ \E n \in 1..MaxRecords : out_df \in [1..n -> LearningRecords]
    /\ sel2 = NoSel2
    /\ filtered_df = <<>>
    /\ IdleFilter1

\* One run of the script from line 246 on, with the boxes the user has ticked
\* among those offered (checkbox_list_unchecked, lines 258-278).
\* A rerun computes the result anew from the table and the boxes alone, so
\* one run per behaviour covers every rerun.
ApplyFilter2 ==
    /\ out_df # <<>>
    /\ ~sel2.ran
    /\ \E selected_practices \in SUBSET all_practices(out_df),
          selected_groups \in SUBSET all_groups(out_df),
          selected_roles \in SUBSET all_roles(out_df) :
            /\ sel2' = [ran |-> TRUE, selected_practices |-> selected_practices,
                        selected_groups |-> selected_groups,
                        selected_roles |-> selected_roles]
            /\ filtered_df' = Kept(Len(out_df),
                    [i \in DOMAIN out_df |->
                        mask2(out_df[i], selected_practices, selected_groups, selected_roles)])
    /\ UNCHANGED <<v, ret, raw, ui, exp, out_df, rows1, sel1, filtered1, later>>

----------------------------------------------------------------------------
(* The sidebar filters of app_exl1.py (lines 157-241), on the rows left by  *)
(* the role and category selection. A row keeps its business unit cell, its *)
(* SOP type cell and the regions detect_regions found in its notes;         *)
(* RegionsDetected joins them with ", ", and no region of the vocabulary is *)
(* a substring of a join of others, so str.contains(r) on the joined string *)
(* is membership of r in the regions found.                                 *)

regions == <<"china", "korea", "taiwan", "hong kong", "india", "us", "uk">>

\* astype(str).replace("nan", "")
blank_nan(c) == IF Str(c) = <<"n", "a", "n">> THEN <<>> ELSE Str(c)

\* lines 189, 198: the values offered as checkboxes
bu_vals(rows) == {blank_nan(rows[i].bu) : i \in DOMAIN rows}

sop_vals(rows) == {blank_nan(rows[i].sop) : i \in DOMAIN rows}

\* lines 207-212
region_present(rows) == {r \in Range(regions) : \E i \in DOMAIN rows : r \in rows[i].regions}

\* lines 234-239: the region part of the mask; region_none is
\* "selected_regions is None"
region_mask(row, region_none, selected_regions, present) ==
    IF ~region_none /\ Cardinality(selected_regions) > 0
    THEN IF Cardinality(selected_regions) # Cardinality(present)
         THEN \E r \in selected_regions : r \in row.regions
         ELSE TRUE
    ELSE TRUE

\* lines 220-239: the mask of one row
mask1(row, selected_bu, selected_sop, region_none, selected_regions, present) ==
    /\ blank_nan(row.bu) \in selected_bu
    /\ blank_nan(row.sop) \in selected_sop
    /\ region_mask(row, region_none, selected_regions, present)

SidebarRows ==
    [bu : {NaN, StrCell(<<"H", "R">>)}, sop : {NaN, StrCell(<<"P">>)},
     regions : SUBSET {"china", "us"}]

InitFilter1 ==
    /\ \E n \in 1..MaxFiltered : rows1 \in [1..n -> SidebarRows]
    /\ sel1 = NoSel1
    /\ filtered1 = <<>>
    /\ IdleFilter2

\* One run of the sidebar pane with the boxes the user has left ticked
\* (checkbox_group, lines 170-182); selected_regions is None when no region
\* occurs in the rows (lines 213-216).
\* A rerun computes the result anew from the table and the boxes alone, so
\* one run per behaviour covers every rerun.
ApplyFilter1 ==
    /\ rows1 # <<>>
    /\ ~sel1.ran
    /\ LET present == region_present(rows1)
       IN  \E selected_bu \in SUBSET bu_vals(rows1),
              selected_sop \in SUBSET sop_vals(rows1),
              selected_regions \in SUBSET present :
                /\ sel1' = [ran |-> TRUE, selected_bu |-> selected_bu,
                            selected_sop |-> selected_sop,
                            region_present |-> present,
                            selected_regions |-> selected_regions]
                /\ filtered1' = Kept(Len(rows1),
                        [i \in DOMAIN rows1 |->
                            mask1(rows1[i], selected_bu, selected_sop, present = {},
                                  selected_regions, present)])
    /\ UNCHANGED <<v, ret, raw, ui, exp, out_df, sel2, filtered_df, rows1, later>>

InitFilter ==
    /\ InitFilter2 \/ InitFilter1
    /\ IdleCoerce /\ IdleSheet /\ IdleLater

NextFilter == ApplyFilter2 \/ ApplyFilter1

SpecFilter == InitFilter /\ [][NextFilter]_vars

----------------------------------------------------------------------------
(* The filter claims. A dimension of a row is the pair of the row's values  *)
(* on it and the selection made on it; a blank attribute has no value.      *)

AttrValues(t) == IF t = <<>> THEN {} ELSE {t}

\* practice, group, role of row i of app_exl2.py's table
Dims2(i) ==
    << <<out_df[i].Practices, sel2.selected_practices>>,
       <<out_df[i].Groups, sel2.selected_groups>>,
       <<out_df[i].Roles, sel2.selected_roles>> >>

\* business unit, SOP type, region of row i of app_exl1.py's table
Dims1(i) ==
    << <<AttrValues(blank_nan(rows1[i].bu)), sel1.selected_bu>>,
       <<AttrValues(blank_nan(rows1[i].sop)), sel1.selected_sop>>,
       <<rows1[i].regions, sel1.selected_regions>> >>

\* the dimension is not selected on, or one of the row's values is selected
Passes(d) == d[2] = {} \/ d[1] \cap d[2] # {}

AllRows(n) == Kept(n, [i \in 1..n |-> TRUE])

C4_LearningItemPanel ==
    sel2.ran =>
        \A i \in DOMAIN out_df :
            (i \in Range(filtered_df)) <=> (\A k \in 1..3 : Passes(Dims2(i)[k]))

C4_SidebarPanel ==
    sel1.ran =>
        \A i \in DOMAIN rows1 :
            (i \in Range(filtered1)) <=> (\A k \in 1..3 : Passes(Dims1(i)[k]))

\* C4: a row is in the filter result if and only if, on every dimension with
\* a non-empty selection, one of its values is selected (AND across
\* dimensions, OR within one); in both filter panels
C4_InResultIffEveryActiveDimensionMatches ==
    C4_LearningItemPanel /\ C4_SidebarPanel

C5_LearningItemPanel ==
    sel2.ran =>
        LET n == Len(out_df)
            P(i) == row_matches_filter_list(out_df[i].Practices, sel2.selected_practices)
            G(i) == row_matches_filter_list(out_df[i].Groups, sel2.selected_groups)
            R(i) == row_matches_filter_list(out_df[i].Roles, sel2.selected_roles)
        IN  /\ sel2.selected_practices = {} =>
                filtered_df = Kept(n, [i \in 1..n |-> G(i) /\ R(i)])
            /\ sel2.selected_groups = {} =>
                filtered_df = Kept(n, [i \in 1..n |-> P(i) /\ R(i)])
            /\ sel2.selected_roles = {} =>
                filtered_df = Kept(n, [i \in 1..n |-> P(i) /\ G(i)])
            /\ (sel2.selected_practices = {} /\ sel2.selected_groups = {}
                    /\ sel2.selected_roles = {}) =>
                filtered_df = AllRows(n)

C5_SidebarPanel ==
    sel1.ran =>
        LET n == Len(rows1)
            B(i) == blank_nan(rows1[i].bu) \in sel1.selected_bu
            S(i) == blank_nan(rows1[i].sop) \in sel1.selected_sop
            R(i) == region_mask(rows1[i], sel1.region_present = {},
                                sel1.selected_regions, sel1.region_present)
        IN  /\ sel1.selected_bu = {} =>
                filtered1 = Kept(n, [i \in 1..n |-> S(i) /\ R(i)])
            /\ sel1.selected_sop = {} =>
                filtered1 = Kept(n, [i \in 1..n |-> B(i) /\ R(i)])
            /\ sel1.selected_regions = {} =>
                filtered1 = Kept(n, [i \in 1..n |-> B(i) /\ S(i)])
            /\ (sel1.selected_bu = {} /\ sel1.selected_sop = {}
                    /\ sel1.selected_regions = {}) =>
                filtered1 = AllRows(n)

\* C5: a dimension on which nothing is selected removes no row, whatever the
\* other dimensions select (the result is the one the other dimensions
\* give), and with nothing selected anywhere the result is the input; in
\* both filter panels
C5_EmptySelectionImposesNoRestriction ==
    C5_LearningItemPanel /\ C5_SidebarPanel

C6_LearningItemPanel ==
    sel2.ran =>
        \A i \in Range(filtered_df) : \A k \in 1..3 :
            Dims2(i)[k][2] # {} => Dims2(i)[k][1] # {}

C6_SidebarPanel ==
    sel1.ran =>
        \A i \in Range(filtered1) : \A k \in 1..3 :
            Dims1(i)[k][2] # {} => Dims1(i)[k][1] # {}

\* C6: when a dimension has a non-empty selection, no row whose value on that
\* dimension is empty is in the result, all offered values selected or not;
\* in both filter panels
C6_BlankExcludedUnderActiveDimension ==
    C6_LearningItemPanel /\ C6_SidebarPanel

\* the region part of C6 alone: some region is ticked and a row that names no
\* region is in the result
C6_UntaggedRowKeptUnderRegionSelection ==
    /\ sel1.ran
    /\ sel1.selected_regions # {}
    /\ \E i \in Range(filtered1) : rows1[i].regions = {}

----------------------------------------------------------------------------
(* detect_regions (app_exl.py lines 215-221, app_exl1.py lines 158-163):    *)
(* a keyword scan of one notes cell.                                        *)

\* the vocabulary as text, in the order of the list regions
region_text ==
    <<<<"c", "h", "i", "n", "a">>,
      <<"k", "o", "r", "e", "a">>,
      <<"t", "a", "i", "w", "a", "n">>,
      <<"h", "o", "n", "g", " ", "k", "o", "n", "g">>,
      <<"i", "n", "d", "i", "a">>,
      <<"u", "s">>,
      <<"u", "k">>>>

\* Python's "r in text" for strings: r occurs in text at some position
RECURSIVE contains_from(_, _, _)
contains_from(t, r, i) ==
    IF i + Len(r) - 1 > Len(t) THEN FALSE
    ELSE IF SubSeq(t, i, i + Len(r) - 1) = r THEN TRUE
    ELSE contains_from(t, r, i + 1)

contains(t, r) == contains_from(t, r, 1)

\* ", ".join(found)
RECURSIVE join(_)
join(items) ==
    IF items = <<>> THEN <<>>
    ELSE IF Len(items) = 1 THEN items[1]
    ELSE items[1] \o <<",", " ">> \o join(Tail(items))

\* a faulty variant: the scan without lower()
detect_regions_no_lower(c) ==
    join(SelectSeq(region_text, LAMBDA r : contains(Str(c), r)))

\* lines 218-221: text = str(text).lower(); found = [r for r in regions if r
\* in text]; ", ".join(found) if found else ""
detect_regions(c) ==
    join(SelectSeq(region_text, LAMBDA r : contains(Lower(Str(c)), r)))

\* the fragments notes are put together from
Fragments ==
    {<<"C", "h", "i", "n", "a">>,
     <<"k", "o", "r", "e", "a">>,
     <<"t", "a", "i", "w", "a", "n">>,
     <<"h", "o", "n", "g">>,
     <<" ">>,
     <<"k", "o", "n", "g">>,
     <<"i", "n", "d", "i", "a">>,
     <<"U", "S">>,
     <<"u", "k">>,
     <<"b">>,
     <<"s">>,
     <<"i", "n">>,
     <<",", " ">>}

RECURSIVE NotesUpTo(_)
NotesUpTo(n) ==
    IF n = 0 THEN {<<>>}
    ELSE LET shorter == NotesUpTo(n - 1)
         IN  shorter \cup {t \o f : t \in shorter, f \in Fragments}

InitRegions ==
    /\ text \in {NaN, IntCell(3), Inf} \cup {StrCell(t) : t \in NotesUpTo(MaxFragments)}
    /\ found = NoTags
    /\ IdleCoerce /\ IdleSheet /\ IdleFilter2 /\ IdleFilter1
    /\ IdleOrg /\ IdleChunker /\ IdleLearn /\ IdleApp

\* one call of detect_regions, as line 223 makes for every notes cell
DetectRegions ==
    /\ ~found.done
    /\ found' = [done |-> TRUE, s |-> detect_regions(text)]
    /\ UNCHANGED <<v, ret, raw, ui, exp, out_df, sel2, filtered_df, rows1, sel1, filtered1,
                   text, cell, org, tc, learn, records, long_rows>>

NextRegions == DetectRegions

SpecRegions == InitRegions /\ [][NextRegions]_vars

----------------------------------------------------------------------------
(* extract_org_groups_practices (app_exl2.py lines 28-45, 59-96). The       *)
(* regular expressions are modelled by the matches they find; the only      *)
(* white space in the model's texts is the space.                           *)

\* \w of a regular expression
IsWordChar(c) ==
    \/ \E i \in 1..26 : UpperLetters[i] = c \/ LowerLetters[i] = c
    \/ IsDigit(c)
    \/ c = "_"

\* the literal lit (in lower case) at position i of t, ignoring case: the
\* position after it, 0 when it is not there
MatchLit(t, i, lit) ==
    IF /\ i >= 1
       /\ i + Len(lit) - 1 <= Len(t)
       /\ \A j \in 1..Len(lit) : LowerChar(t[i + j - 1]) = lit[j]
    THEN i + Len(lit) ELSE 0

\* \s*: the first position from i on that holds no space
RECURSIVE SkipSpaces(_, _)
SkipSpaces(t, i) == IF i <= Len(t) /\ IsSpace(t[i]) THEN SkipSpaces(t, i + 1) ELSE i

\* ORG_RE up to its opening parenthesis, matched at position i: the position
\* after "(", 0 when there is no match.
\* Organisat(?:ion|ion)\s*(?:Type)?\s*:\s*Any of\s*:\s*\(
OrgHeadEnd(t, i) ==
    LET a == MatchLit(t, i, <<"o", "r", "g", "a", "n", "i", "s", "a", "t", "i", "o", "n">>)
        b == IF a = 0 THEN 0 ELSE SkipSpaces(t, a)
        ty == IF b = 0 THEN 0 ELSE MatchLit(t, b, <<"t", "y", "p", "e">>)
        c == IF b = 0 THEN 0 ELSE IF ty # 0 THEN SkipSpaces(t, ty) ELSE b
        d == IF c = 0 THEN 0 ELSE MatchLit(t, c, <<":">>)
        e == IF d = 0 THEN 0 ELSE MatchLit(t, SkipSpaces(t, d), <<"a", "n", "y", " ", "o", "f">>)
        f == IF e = 0 THEN 0 ELSE MatchLit(t, SkipSpaces(t, e), <<":">>)
    IN  IF f = 0 THEN 0 ELSE MatchLit(t, SkipSpaces(t, f), <<"(">>)

\* \(([^)]*)\): the group opened before position i ends at the first ")" from
\* i on; its position, 0 when there is none
RECURSIVE FirstClose(_, _)
FirstClose(t, i) ==
    IF i > Len(t) THEN 0 ELSE IF t[i] = ")" THEN i ELSE FirstClose(t, i + 1)

\* ORG_RE.finditer(cell): group(1) of the matches, left to right
RECURSIVE org_finditer(_, _)
org_finditer(t, i) ==
    IF i > Len(t) THEN <<>>
    ELSE LET open == OrgHeadEnd(t, i)
             close == IF open = 0 THEN 0 ELSE FirstClose(t, open)
         IN  IF close = 0 THEN org_finditer(t, i + 1)
             ELSE <<SubSeq(t, open, close - 1)>> \o org_finditer(t, close + 1)

\* re.split(r",\s*", s): the pieces between the commas, the spaces after a
\* comma dropped
RECURSIVE split_commas(_, _)
split_commas(t, acc) ==
    IF t = <<>> THEN <<acc>>
    ELSE IF Head(t) = ","
    THEN <<acc>> \o split_commas(SubSeq(t, SkipSpaces(t, 2), Len(t)), <<>>)
    ELSE split_commas(Tail(t), Append(acc, Head(t)))

\* lines 30-36
split_items(t) ==
    IF Strip(t) = <<>> THEN <<>>
    ELSE SelectSeq([i \in DOMAIN split_commas(t, <<>>) |-> Strip(split_commas(t, <<>>)[i])],
                   LAMBDA part : part # <<>>)

\* the characters of a set stripped from both ends
RECURSIVE LStripChars(_, _)
LStripChars(t, chars) ==
    IF t # <<>> /\ Head(t) \in chars THEN LStripChars(Tail(t), chars) ELSE t

RECURSIVE RStripChars(_, _)
RStripChars(t, chars) ==
    IF t # <<>> /\ t[Len(t)] \in chars
    THEN RStripChars(SubSeq(t, 1, Len(t) - 1), chars) ELSE t

StripChars(t, chars) == RStripChars(LStripChars(t, chars), chars)

\* re.sub(r"\s{2,}", " ", t)
RECURSIVE collapse_spaces(_)
collapse_spaces(t) ==
    IF t = <<>> THEN <<>>
    ELSE IF Len(t) >= 2 /\ IsSpace(t[1]) /\ IsSpace(t[2])
    THEN <<" ">> \o collapse_spaces(SubSeq(t, SkipSpaces(t, 1), Len(t)))
    ELSE <<Head(t)>> \o collapse_spaces(Tail(t))

\* lines 38-45
clean_item(it) == collapse_spaces(Strip(StripChars(it, {"(", ")", " ", "\"", "'"})))

\* re.search(r"\bword\b", it, flags=re.I)
has_word(it, word) ==
    \E i \in 1..Len(it) :
        /\ MatchLit(it, i, word) # 0
        /\ i = 1 \/ ~IsWordChar(it[i - 1])
        /\ i + Len(word) > Len(it) \/ ~IsWordChar(it[i + Len(word)])

\* \(?\s*word\s*\)? matched at position i: the position after the match, 0
\* when there is none
LabelEnd(t, i, word) ==
    LET j == IF i <= Len(t) /\ t[i] = "(" THEN i + 1 ELSE i
        w == MatchLit(t, SkipSpaces(t, j), word)
        e == IF w = 0 THEN 0 ELSE SkipSpaces(t, w)
    IN  IF e = 0 THEN 0 ELSE IF e <= Len(t) /\ t[e] = ")" THEN e + 1 ELSE e

\* re.sub(r"\(?\s*word\s*\)?", "", t, flags=re.I)
RECURSIVE remove_label(_, _, _)
remove_label(t, i, word) ==
    IF i > Len(t) THEN <<>>
    ELSE LET e == LabelEnd(t, i, word)
         IN  IF e # 0 THEN remove_label(t, e, word)
             ELSE <<t[i]>> \o remove_label(t, i + 1, word)

\* lines 78-83, 85-89: the name left when the label is taken out, the cleaned
\* item when nothing is left
label_name(it_clean, word) ==
    LET name == StripChars(remove_label(it_clean, 1, word), {" ", "-", ",", ":", ";"})
    IN  IF name # <<>> THEN name ELSE it_clean

W_group == <<"g", "r", "o", "u", "p">>

W_practice == <<"p", "r", "a", "c", "t", "i", "c", "e">>

\* lines 76, 84, 90: the list an item is appended to
item_list(it) ==
    IF has_word(it, W_group) THEN "groups"
    ELSE IF has_word(it, W_practice) THEN "practices"
    ELSE "groups"

\* lines 78-92: the name an item is appended under
item_name(it) ==
    LET it_clean == clean_item(it)
    IN  IF has_word(it, W_group) THEN label_name(it_clean, W_group)
        ELSE IF has_word(it, W_practice) THEN label_name(it_clean, W_practice)
        ELSE it_clean

\* lines 71-92 for the items of one match: what they add to groups
\* (which = "groups") and to practices
item_names(items, which) ==
    {item_name(items[n]) :
        n \in {n \in DOMAIN items :
                clean_item(items[n]) # <<>> /\ item_list(items[n]) = which}}

\* lines 59-96; sorted(set(...)) is kept as the set
extract_org_groups_practices(c) ==
    IF c.k # "str" THEN [ran |-> TRUE, groups |-> {}, practices |-> {}]
    ELSE LET matches == org_finditer(c.s, 1)
         IN  [ran |-> TRUE,
              groups |-> UNION {item_names(split_items(matches[n]), "groups") :
                                    n \in DOMAIN matches},
              practices |-> UNION {item_names(split_items(matches[n]), "practices") :
                                    n \in DOMAIN matches}]

\* the ways the model's cells open an Organisation list
OrgHeads ==
    {<<"O", "r", "g", "a", "n", "i", "s", "a", "t", "i", "o", "n", ":", " ", "A", "n", "y", " ", "o", "f", ":", " ", "(">>,
     <<"O", "r", "g", "a", "n", "i", "s", "a", "t", "i", "o", "n", " ", "T", "y", "p", "e", " ", ":", " ", "a", "n", "y", " ", "o", "f", ":", "(">>}

\* the items the model's lists are made of
OrgItems ==
    {<<"O", "p", "s">>,
     <<"O", "p", "s", " ", "G", "r", "o", "u", "p">>,
     <<"O", "p", "s", " ", "(", "G", "r", "o", "u", "p", ")">>,
     <<"D", "a", "t", "a", " ", "(", "P", "r", "a", "c", "t", "i", "c", "e", ")">>,
     <<"D", "a", "t", "a", " ", "p", "r", "a", "c", "t", "i", "c", "e">>,
     <<"S", "u", "b", "g", "r", "o", "u", "p", "s">>,
     <<"G", "r", "o", "u", "p">>,
     <<"(", "P", "r", "a", "c", "t", "i", "c", "e", ")">>,
     <<"'", "'">>,
     <<"O", "p", "s", " ", " ", "X">>,
     <<"O", "p", "s", "-", " ", "G", "r", "o", "u", "p">>}

RECURSIVE OrgItemSeqs(_)
OrgItemSeqs(n) ==
    IF n = 0 THEN {<<>>}
    ELSE LET shorter == OrgItemSeqs(n - 1)
         IN  shorter \cup {Append(q, it) : q \in {q \in shorter : Len(q) = n - 1}, it \in OrgItems}

\* the member-criteria cell that lists these items
OrgCell(head, items) == StrCell(head \o join(items) \o <<")">>)

InitOrg ==
    /\ \/ cell = NaN
       \/ \E head \in OrgHeads, items \in OrgItemSeqs(MaxOrgItems) : cell = OrgCell(head, items)
    /\ org = NoOrg
    /\ IdleCoerce /\ IdleSheet /\ IdleFilter2 /\ IdleFilter1
    /\ IdleRegions /\ IdleChunker /\ IdleLearn /\ IdleApp

\* one call, as parse_row_attributes makes for a row (line 157)
ExtractOrg ==
    /\ ~org.ran
    /\ org' = extract_org_groups_practices(cell)
    /\ UNCHANGED <<v, ret, raw, ui, exp, out_df, sel2, filtered_df, rows1, sel1, filtered1,
                   text, found, cell, tc, learn, records, long_rows>>

NextOrg == ExtractOrg

SpecOrg == InitOrg /\ [][NextOrg]_vars

----------------------------------------------------------------------------
(* TextChunker.split(text, size, overlap): the sliding window of section 4.4
   of the specification. A call is the record tc: pc is "call" before the
   parameters are looked at, "error" after ConfigError, "loop" while the
   window slides and "done" after the return; k is the index of the next
   chunk and chunks the TextChunks produced so far. *)

Letters == <<"a", "b", "c", "d", "e", "f", "g", "h", "i", "j">>

\* a text of n characters in which neighbouring characters differ
LetterText(n) == [i \in 1..n |-> Letters[((i - 1) % Len(Letters)) + 1]]

\* a text of n equal characters
PlainText(n) == [i \in 1..n |-> "x"]

Min(a, b) == IF a <= b THEN a ELSE b

\* a faulty variant: overlap = size is let through
config_ok_up_to_size(size, overlap) == overlap <= size

\* "overlap must be < size -- fails with ConfigError otherwise"
config_ok(size, overlap) == overlap < size

\* a faulty variant: the windows follow each other without overlap
char_start_no_overlap(size, overlap, k) == k * size

\* "chunk k starts at k*(size-overlap)"
char_start(size, overlap, k) == k * (size - overlap)

\* chunk k: the window of size characters from its start, cut at the text's end
chunk_at(t, size, overlap, k) ==
    LET start == char_start(size, overlap, k)
        end   == Min(start + size, Len(t))
    IN  [index |-> k, text |-> SubSeq(t, start + 1, end),
         char_start |-> start, char_end |-> end]

\* "stops when char_start >= len(text)"
stops(t, size, overlap, k) == char_start(size, overlap, k) >= Len(t)

InitChunker ==
    /\ \E n \in 0..MaxTextLen, size \in 0..MaxSize, overlap \in 0..MaxSize :
         \E t \in {LetterText(n), PlainText(n)} :
            tc = [pc |-> "call", text |-> t, size |-> size, overlap |-> overlap,
                  k |-> 0, chunks |-> <<>>]
    /\ IdleCoerce /\ IdleSheet /\ IdleFilter2 /\ IdleFilter1
    /\ IdleRegions /\ IdleOrg /\ IdleLearn /\ IdleApp

\* the parameter check on entry
SplitEnter ==
    /\ tc.pc = "call"
    /\ tc' = [tc EXCEPT !.pc = IF config_ok(tc.size, tc.overlap) THEN "loop" ELSE "error"]
    /\ UNCHANGED <<v, ret, raw, ui, exp, out_df, sel2, filtered_df, rows1, sel1, filtered1,
                   text, found, cell, org, learn, records, long_rows>>

\* one turn of the window: chunk k is produced
SplitChunk ==
    /\ tc.pc = "loop"
    /\ ~stops(tc.text, tc.size, tc.overlap, tc.k)
    /\ tc' = [tc EXCEPT !.chunks = Append(@, chunk_at(tc.text, tc.size, tc.overlap, tc.k)),
                        !.k = @ + 1]
    /\ UNCHANGED <<v, ret, raw, ui, exp, out_df, sel2, filtered_df, rows1, sel1, filtered1,
                   text, found, cell, org, learn, records, long_rows>>

\* the window has left the text: the chunks are returned
SplitReturn ==
    /\ tc.pc = "loop"
    /\ stops(tc.text, tc.size, tc.overlap, tc.k)
    /\ tc' = [tc EXCEPT !.pc = "done"]
    /\ UNCHANGED <<v, ret, raw, ui, exp, out_df, sel2, filtered_df, rows1, sel1, filtered1,
                   text, found, cell, org, learn, records, long_rows>>

NextChunker == SplitEnter \/ SplitChunk \/ SplitReturn

SpecChunker == InitChunker /\ [][NextChunker]_vars

----------------------------------------------------------------------------
(* app_exl2.py, lines 135-237: the learning-item records. learn holds the
   rows left by the header cleanup (line 132), each the cells of columns
   A..E; row numbers count from 0 as in the code. *)

\* ROLE_RE up to its opening parenthesis, matched at position i: the position
\* after "(", 0 when there is no match.
\* Role(?:s)?\s*:\s*Any of\s*:\s*\(
RoleHeadEnd(t, i) ==
    LET a == MatchLit(t, i, <<"r", "o", "l", "e">>)
        pl == IF a = 0 THEN 0 ELSE MatchLit(t, a, <<"s">>)
        b == IF a = 0 THEN 0 ELSE IF pl # 0 THEN SkipSpaces(t, pl) ELSE SkipSpaces(t, a)
        d == IF b = 0 THEN 0 ELSE MatchLit(t, b, <<":">>)
        e == IF d = 0 THEN 0 ELSE MatchLit(t, SkipSpaces(t, d), <<"a", "n", "y", " ", "o", "f">>)
        f == IF e = 0 THEN 0 ELSE MatchLit(t, SkipSpaces(t, e), <<":">>)
    IN  IF f = 0 THEN 0 ELSE MatchLit(t, SkipSpaces(t, f), <<"(">>)

\* ROLE_RE.finditer(cell): group 1 of the matches from position i on
RECURSIVE role_finditer(_, _)
role_finditer(t, i) ==
    IF i > Len(t) THEN <<>>
    ELSE LET open == RoleHeadEnd(t, i)
             close == IF open = 0 THEN 0 ELSE FirstClose(t, open)
         IN  IF close = 0 THEN role_finditer(t, i + 1)
             ELSE <<SubSeq(t, open, close - 1)>> \o role_finditer(t, close + 1)

\* lines 52-56 for the items of one match: the cleaned items that are not empty
role_names(items) == {clean_item(items[j]) : j \in DOMAIN items} \ {<<>>}

\* lines 47-57; sorted(set(...)) is kept as the set
extract_roles(c) ==
    IF c.k # "str" THEN {}
    ELSE LET matches == role_finditer(c.s, 1)
         IN  UNION {role_names(split_items(matches[n])) : n \in DOMAIN matches}

\* lines 135-139: column c of the rows, .astype(object).fillna("").astype(str)
column_text(rows, c) == [i \in DOMAIN rows |-> Str(fillna_blank(rows[i][c]))]

prescriptive(rows) == column_text(rows, 1)

member_criteria(rows) == column_text(rows, 2)

course_id_col(rows) == column_text(rows, 3)

course_title_col(rows) == column_text(rows, 4)

curriculum_title_col(rows) == column_text(rows, 5)

\* lines 147-150: the keys of rule_to_indices in the order the dict holds
\* them, that of their first row
RECURSIVE rule_keys(_, _)
rule_keys(rows, n) ==
    IF n = 0 THEN <<>>
    ELSE LET before == rule_keys(rows, n - 1)
             key == Strip(prescriptive(rows)[n])
         IN  IF \E j \in DOMAIN before : before[j] = key THEN before
             ELSE Append(before, key)

\* rule_to_indices[key]: the rows of the key among the first n, counted from 0
RECURSIVE rule_to_indices(_, _, _)
rule_to_indices(rows, key, n) ==
    IF n = 0 THEN <<>>
    ELSE rule_to_indices(rows, key, n - 1)
            \o (IF Strip(prescriptive(rows)[n]) = key THEN <<n - 1>> ELSE <<>>)

\* lines 154-158 for row i (counted from 0); the cell and the two lists of
\* the tuple are bound once, as values
parse_row_attributes(rows, i) ==
    CHOOSE a \in {[groups |-> gp.groups, practices |-> gp.practices, roles |-> extract_roles(c)] :
                    c \in {StrCell(member_criteria(rows)[i + 1])},
                    gp \in {extract_org_groups_practices(StrCell(member_criteria(rows)[i + 1]))}} :
        TRUE

\* parse_row_attributes of the first n rows; attrs[i + 1] is that of row i
RECURSIVE row_attributes(_, _)
row_attributes(rows, n) ==
    IF n = 0 THEN <<>>
    ELSE Append(row_attributes(rows, n - 1), parse_row_attributes(rows, n - 1))

\* lines 164-171: the first curriculum title of the rows that is not blank,
\* else the rule text
RECURSIVE curr_title(_, _, _)
curr_title(rows, rule_key, indices) ==
    IF indices = <<>> THEN rule_key
    ELSE LET t == curriculum_title_col(rows)[Head(indices) + 1]
         IN  IF Strip(t) # <<>> THEN Strip(t)
             ELSE curr_title(rows, rule_key, Tail(indices))

\* a faulty variant: the curriculum takes the lists of its first row only
curriculum_record_first_row(rows, attrs, rule_key, indices) ==
    [Title |-> Strip(curr_title(rows, rule_key, indices)),
     ID |-> <<>>,
     Type |-> "curriculum",
     Groups |-> attrs[indices[1] + 1].groups,
     Practices |-> attrs[indices[1] + 1].practices,
     Roles |-> attrs[indices[1] + 1].roles,
     SourceIndices |-> indices]

\* lines 172-188
curriculum_record(rows, attrs, rule_key, indices) ==
    [Title |-> Strip(curr_title(rows, rule_key, indices)),
     ID |-> <<>>,
     Type |-> "curriculum",
     Groups |-> UNION {attrs[indices[j] + 1].groups : j \in DOMAIN indices},
     Practices |-> UNION {attrs[indices[j] + 1].practices : j \in DOMAIN indices},
     Roles |-> UNION {attrs[indices[j] + 1].roles : j \in DOMAIN indices},
     SourceIndices |-> indices]

\* lines 191-202: the course record of row i of a rule that several rows share
course_record_of_rule(rows, attrs, rule_key, i) ==
    LET title == Strip(course_title_col(rows)[i + 1])
    IN  [Title |-> IF title # <<>> THEN Strip(title) ELSE Strip(rule_key),
         ID |-> Strip(course_id_col(rows)[i + 1]),
         Type |-> "course",
         Groups |-> attrs[i + 1].groups,
         Practices |-> attrs[i + 1].practices,
         Roles |-> attrs[i + 1].roles,
         SourceIndex |-> i]

\* lines 205-220: the course record of row i
course_record(rows, attrs, i) ==
    LET title == Strip(course_title_col(rows)[i + 1])
        fallback_title == Strip(curriculum_title_col(rows)[i + 1])
    IN  [Title |-> IF title # <<>> THEN title
                   ELSE IF fallback_title # <<>> THEN fallback_title
                   ELSE Strip(prescriptive(rows)[i + 1]),
         ID |-> Strip(course_id_col(rows)[i + 1]),
         Type |-> "course",
         Groups |-> attrs[i + 1].groups,
         Practices |-> attrs[i + 1].practices,
         Roles |-> attrs[i + 1].roles,
         SourceIndex |-> i]

\* lines 162-220: the records one key of rule_to_indices adds
records_of_rule(rows, attrs, rule_key) ==
    LET indices == rule_to_indices(rows, rule_key, Len(rows))
    IN  IF rule_key # <<>> /\ Len(indices) > 1
        THEN <<curriculum_record(rows, attrs, rule_key, indices)>>
                \o [j \in DOMAIN indices |->
                        course_record_of_rule(rows, attrs, rule_key, indices[j])]
        ELSE <<course_record(rows, attrs, indices[1])>>

\* lines 160-220: the records of the keys, in the order of the keys
RECURSIVE build_records(_, _, _)
build_records(rows, attrs, keys) ==
    IF keys = <<>> THEN <<>>
    ELSE records_of_rule(rows, attrs, Head(keys)) \o build_records(rows, attrs, Tail(keys))

\* lines 225-237: the records whose Title is not blank (the names in the
\* three lists are stripped and not empty already)
RECURSIVE cleaned(_)
cleaned(recs) ==
    IF recs = <<>> THEN <<>>
    ELSE (IF Strip(Head(recs).Title) = <<>> THEN <<>> ELSE <<Head(recs)>>)
            \o cleaned(Tail(recs))

\* the cells of a rule text, a criteria cell, a course id, and a title
RuleCells == {NaN, StrCell(<<" ">>), StrCell(<<"R">>), StrCell(<<"R", " ">>), StrCell(<<"Q">>)}

CriteriaCells == {NaN, StrCell(<<"R", "o", "l", "e", "s", ":", " ", "A", "n", "y", " ", "o", "f", ":", " ", "(", "A", ")", " ", "O", "r", "g", "a", "n", "i", "s", "a", "t", "i", "o", "n", ":", " ", "A", "n", "y", " ", "o", "f", ":", " ", "(", "G", ")">>)}

CourseTitleCells == {NaN, StrCell(<<"T">>)}

CurriculumTitleCells == {NaN, StrCell(<<"K">>)}

LearnRows ==
    {<<a, b, StrCell(<<"7">>), d, e>> :
        a \in RuleCells, b \in CriteriaCells, d \in CourseTitleCells, e \in CurriculumTitleCells}

InitLearn ==
    /\ \E n \in 0..MaxLearnRows : learn \in [1..n -> LearnRows]
    /\ records = NoRecords
    /\ IdleCoerce /\ IdleSheet /\ IdleFilter2 /\ IdleFilter1
    /\ IdleRegions /\ IdleOrg /\ IdleChunker /\ IdleApp

\* The script from line 135 to line 239: the records, the cleaned records
\* and the table out_df made of them.
ParseLearning ==
    /\ ~records.ran
    /\ \E attrs \in {row_attributes(learn, Len(learn))} :
         \E recs \in {build_records(learn, attrs, rule_keys(learn, Len(learn)))} :
            /\ records' = [ran |-> TRUE, records |-> recs, cleaned |-> cleaned(recs)]
            /\ out_df' = cleaned(recs)
    /\ UNCHANGED <<v, ret, raw, ui, exp, sel2, filtered_df, rows1, sel1, filtered1,
                   text, found, cell, org, tc, learn, long_rows>>

\* the script goes on with the checkbox filter on out_df (line 246 on)
NextLearn == ParseLearning \/ ApplyFilter2

SpecLearn == InitLearn /\ [][NextLearn]_vars

\* the same script on sheets whose rows share a rule text and differ in their
\* criteria
FilterCriteriaCells == {NaN, StrCell(<<"R", "o", "l", "e", ":", " ", "A", "n", "y", " ", "o", "f", ":", " ", "(", "A", ")">>), StrCell(<<"O", "r", "g", "a", "n", "i", "s", "a", "t", "i", "o", "n", ":", " ", "A", "n", "y", " ", "o", "f", ":", " ", "(", "G", ",", " ", "P", " ", "P", "r", "a", "c", "t", "i", "c", "e", ")">>)}

FilterLearnRows ==
    {<<a, b, StrCell(<<"7">>), NaN, e>> :
        a \in {NaN, StrCell(<<"R">>), StrCell(<<"R", " ">>)},
        b \in FilterCriteriaCells,
        e \in CurriculumTitleCells}

InitLearnFilter ==
    /\ \E n \in 0..MaxLearnRows : learn \in [1..n -> FilterLearnRows]
    /\ records = NoRecords
    /\ IdleCoerce /\ IdleSheet /\ IdleFilter2 /\ IdleFilter1
    /\ IdleRegions /\ IdleOrg /\ IdleChunker /\ IdleApp

SpecLearnFilter == InitLearnFilter /\ [][NextLearn]_vars

----------------------------------------------------------------------------
(* The title and column resolution claims. *)

\* a cell that holds something: not NaN, not missing, not a blank string
NonEmptyCell(c) == ~isna(c) /\ c.k # "none" /\ ~(c.k = "str" /\ Strip(c.s) = <<>>)

\* the chain the claim states
ClaimedTitle(resolved, fourth, number) ==
    IF NonEmptyCell(resolved) THEN resolved
    ELSE IF NonEmptyCell(fourth) THEN fourth
    ELSE number

\* the positions of the headers that equal, ignoring case, candidate k
AliasHits(columns, candidates, k) ==
    {i \in DOMAIN columns : Lower(columns[i]) = Lower(candidates[k])}

\* the first candidate, in list order, that some header equals ignoring case;
\* 0 when there is none
FirstAlias(columns, candidates) ==
    LET ks == {k \in DOMAIN candidates : AliasHits(columns, candidates, k) # {}}
    IN  IF ks = {} THEN 0 ELSE CHOOSE k \in ks : \A j \in ks : k <= j

\* the cell of data row r under the column pick_column resolves, None when
\* it resolves none
ResolvedCell(sheet, candidates, r) ==
    LET columns == header_row(sheet)
        k == FirstAlias(columns, candidates)
    IN  IF k = 0 THEN NoneCell
        ELSE LET hits == AliasHits(columns, candidates, k)
             IN  DataCell(sheet, r, (CHOOSE i \in hits : \A j \in hits : j <= i) - 1)

TitleColumnOf(columns) ==
    LET k == FirstAlias(columns, title_candidates)
    IN  IF k = 0 THEN 3
        ELSE LET hits == AliasHits(columns, title_candidates, k)
             IN  (CHOOSE i \in hits : \A j \in hits : j <= i) - 1

ResolvesAs(res, columns, candidates) ==
    LET k == FirstAlias(columns, candidates)
    IN  IF k = 0 THEN res = NoColumn
        ELSE /\ res.some
             /\ in_columns(columns, res.name)
             /\ Lower(res.name) = Lower(candidates[k])

\* C19: pick_column returns a header of the grid that equals, ignoring case,
\* the first alias in list order that matches any header, and None when no
\* alias matches; the run ends without error. For each of the five lookups of
\* app_exl.py (title_col before its column D fallback, which applies only
\* when the lookup gave None)
C19_PickColumnFirstAliasInListOrder ==
    (ui.stage = "done" /\ raw # <<>>) =>
        LET columns == header_row(raw)
        IN  /\ ResolvesAs(ui.bu_col, columns, bu_candidates)
            /\ ResolvesAs(ui.sop_type_col, columns, sop_type_candidates)
            /\ ResolvesAs(ui.number_col, columns, number_candidates)
            /\ ResolvesAs(ui.notes_col, columns, notes_candidates)
            /\ FirstAlias(columns, title_candidates) # 0 =>
                    ResolvesAs(ui.title_col, columns, title_candidates)

\* C19's case: "Name" stands left of "SOP Title" in the grid and "SOP Title"
\* comes first in the alias list; no header is a Notes alias
C19_Witness ==
    /\ ui.stage = "done"
    /\ raw # <<>>
    /\ header_row(raw)[1] = T_Name
    /\ ui.title_col = Column(T_SOPTitle)
    /\ ui.notes_col = NoColumn

----------------------------------------------------------------------------
(* The region scan claim. *)

\* the result split at ", ": the tags it lists
RECURSIVE SplitTags(_, _)
SplitTags(t, acc) ==
    IF t = <<>> THEN (IF acc = <<>> THEN <<>> ELSE <<acc>>)
    ELSE IF Len(t) >= 2 /\ t[1] = "," /\ t[2] = " "
    THEN <<acc>> \o SplitTags(SubSeq(t, 3, Len(t)), <<>>)
    ELSE SplitTags(Tail(t), Append(acc, Head(t)))

\* r occurs in t as a literal substring
Occurs(r, t) == \E i \in 1..(Len(t) - Len(r) + 1) : SubSeq(t, i, i + Len(r) - 1) = r

VocabIndex(tag) == CHOOSE i \in DOMAIN region_text : region_text[i] = tag

\* C12: the tags are exactly the vocabulary entries that occur as literal
\* substrings of the lower-cased notes, in vocabulary order, none twice, and
\* none at all when no entry occurs or the cell is NaN
C12_TagsAreTheVocabularyEntriesFound ==
    found.done =>
        LET tags == SplitTags(found.s, <<>>)
            lowered == Lower(Str(text))
        IN  /\ \A n \in DOMAIN tags : \E i \in DOMAIN region_text : region_text[i] = tags[n]
            /\ \A i \in DOMAIN region_text :
                    Occurs(region_text[i], lowered) <=> (\E n \in DOMAIN tags : tags[n] = region_text[i])
            /\ \A n, m \in DOMAIN tags : n < m => VocabIndex(tags[n]) < VocabIndex(tags[m])
            /\ isna(text) => found.s = <<>>

\* C12's case: notes in mixed case that name two regions out of vocabulary
\* order, and "us" inside another region
C12_Witness ==
    /\ found.done
    /\ text = StrCell(<<"U", "S", "C", "h", "i", "n", "a">>)
    /\ found.s = <<"c", "h", "i", "n", "a", ",", " ", "u", "s">>

----------------------------------------------------------------------------
(* The order of the filter result. *)

\* positions of the input, each at most once, in rising order
IsSubsequenceOfRows(result, n) ==
    /\ \A i \in DOMAIN result : result[i] \in 1..n
    /\ \A i, j \in DOMAIN result : i < j => result[i] < result[j]

\* C13: the filter result lists rows of the input in their source order, none
\* twice, for every selection; in both filter panels
C13_ResultKeepsSourceOrder ==
    /\ sel2.ran => IsSubsequenceOfRows(filtered_df, Len(out_df))
    /\ sel1.ran => IsSubsequenceOfRows(filtered1, Len(rows1))

\* C13's case: a selection is active and two rows pass it
C13_Witness ==
    /\ sel2.ran
    /\ sel2.selected_groups # {}
    /\ Len(filtered_df) >= 2

----------------------------------------------------------------------------
(* The organisation list claim. *)

\* the two lists hold the items of this list, each in the list of its class
\* (item_list: group if it holds the word "group", else practice if it holds
\* the word "practice", else group) under its name
ItemsClassified(items) ==
    /\ \A n \in DOMAIN items :
            clean_item(items[n]) # <<>> =>
                item_name(items[n]) \in (IF item_list(items[n]) = "groups"
                                        THEN org.groups ELSE org.practices)
    /\ \A g \in org.groups :
            \E n \in DOMAIN items :
                clean_item(items[n]) # <<>> /\ item_list(items[n]) = "groups"
                    /\ item_name(items[n]) = g
    /\ \A q \in org.practices :
            \E n \in DOMAIN items :
                clean_item(items[n]) # <<>> /\ item_list(items[n]) = "practices"
                    /\ item_name(items[n]) = q

\* C14: every item of an Organisation "Any of: (...)" list that is not empty is
\* in exactly the list of its class (group, else practice, else group): none
\* is dropped and the lists hold nothing else
C14_EveryItemInTheListOfItsClass ==
    org.ran =>
        \A head \in OrgHeads, items \in OrgItemSeqs(MaxOrgItems) :
            cell = OrgCell(head, items) => ItemsClassified(items)

\* The part of C14 that holds: lists in which no item but the last holds a
\* ")" of its own.
C14_ListsWithoutInnerParentheses ==
    org.ran =>
        \A head \in OrgHeads, items \in OrgItemSeqs(MaxOrgItems) :
            (cell = OrgCell(head, items)
                /\ \A n \in 1..(Len(items) - 1) : ~in_columns(items[n], ")")) =>
                    ItemsClassified(items)

\* C14's failing case: an item after one with a parenthesised label is in
\* neither list
C14_ItemAfterLabelDropped ==
    /\ org.ran
    /\ cell = OrgCell(<<"O", "r", "g", "a", "n", "i", "s", "a", "t", "i", "o", "n", ":", " ", "A", "n", "y", " ", "o", "f", ":", " ", "(">>, <<<<"O", "p", "s", " ", "(", "G", "r", "o", "u", "p", ")">>, <<"D", "a", "t", "a", " ", "(", "P", "r", "a", "c", "t", "i", "c", "e", ")">>>>)
    /\ org.groups = {<<"O", "p", "s">>}
    /\ org.practices = {}

----------------------------------------------------------------------------
(* The TextChunker claims. *)

\* the call is one the sliding-window claims speak of
WindowCall == tc.pc \in {"loop", "done"} /\ 0 <= tc.overlap /\ tc.overlap < tc.size

\* the characters two chunks have in common
Shared(c, d) ==
    LET lo == IF c.char_start >= d.char_start THEN c.char_start ELSE d.char_start
        hi == Min(c.char_end, d.char_end)
    IN  IF hi > lo THEN hi - lo ELSE 0

C16_ConsecutiveChunksShareOverlap ==
    (WindowCall /\ tc.pc = "done") =>
        /\ \A j \in 1..(Len(tc.chunks) - 2) :
                Shared(tc.chunks[j], tc.chunks[j + 1]) = tc.overlap
        /\ \A j \in 1..(Len(tc.chunks) - 1) :
                Len(tc.chunks[j].text) = tc.size

\* The part of C16 that holds: a chunk whose window ends inside the text has
\* size characters and shares exactly overlap of them with its successor.
C16_FullWindowsShareOverlap ==
    WindowCall =>
        \A j \in DOMAIN tc.chunks :
            tc.chunks[j].char_start + tc.size <= Len(tc.text) =>
                /\ Len(tc.chunks[j].text) = tc.size
                /\ j < Len(tc.chunks) =>
                        Shared(tc.chunks[j], tc.chunks[j + 1]) = tc.overlap

\* C16's failing case: text of 3 characters, size 4, overlap 3: the chunks are
\* [0,3), [1,3), [2,3); the first two are short and share 2 characters
C16_ShortChunksBeforeFinal ==
    /\ tc.pc = "done" /\ tc.size = 4 /\ tc.overlap = 3 /\ Len(tc.text) = 3
    /\ Len(tc.chunks) = 3
    /\ Len(tc.chunks[1].text) = 3
    /\ Shared(tc.chunks[1], tc.chunks[2]) = 2

\* C17: when size >= len(text) and overlap < size the call returns exactly
\* one chunk, which covers the whole text
C17_SingleChunkWhenSizeCoversText ==
    (WindowCall /\ tc.pc = "done" /\ tc.size >= Len(tc.text)) =>
        /\ Len(tc.chunks) = 1
        /\ tc.chunks[1].char_start = 0
        /\ tc.chunks[1].char_end = Len(tc.text)
        /\ tc.chunks[1].text = tc.text

\* The part of C17 that holds: a text that is not empty and no longer than
\* size - overlap gives exactly one chunk, the whole text; a text no longer
\* than size gives a first chunk that is the whole text.
C17_SingleChunkUpToStep ==
    (WindowCall /\ tc.pc = "done" /\ Len(tc.text) > 0) =>
        /\ Len(tc.text) <= tc.size - tc.overlap =>
                Len(tc.chunks) = 1
        /\ Len(tc.text) <= tc.size => tc.chunks[1].text = tc.text

\* C17's failing case: text of 3 characters, size 3, overlap 1: a second chunk
\* [2,3) follows the chunk that already covers the text
C17_SecondChunkInsideFirst ==
    /\ tc.pc = "done" /\ tc.size = 3 /\ tc.overlap = 1 /\ Len(tc.text) = 3
    /\ Len(tc.chunks) = 2
    /\ tc.chunks[1].text = tc.text
    /\ tc.chunks[2].char_start = 2 /\ tc.chunks[2].char_end = 3

\* C18: a call with overlap >= size ends in ConfigError at once, with no chunk
\* and with the parameters as given; a call with overlap < size never fails,
\* produces at most len(text) chunks, each turn of the loop producing one,
\* and can always take its next step until it has returned
C18_ConfigErrorOrTermination ==
    /\ tc.pc = "error" => tc.overlap >= tc.size /\ tc.chunks = <<>> /\ tc.k = 0
    /\ (tc.pc \in {"loop", "done"}) =>
            /\ tc.overlap < tc.size
            /\ Len(tc.chunks) = tc.k
            /\ tc.k <= Len(tc.text)
    /\ tc.pc = "call" => tc.chunks = <<>>
    /\ tc.pc = "loop" => ENABLED (SplitChunk \/ SplitReturn)
    /\ tc.pc \in {"error", "done"} => ~ENABLED NextChunker

\* C18's cases: a call refused for overlap = size on a text that is not empty
C18_Witness ==
    /\ tc.pc = "error" /\ tc.overlap = tc.size /\ tc.size > 0
    /\ Len(tc.text) = MaxTextLen

----------------------------------------------------------------------------
(* The learning-item record claim. *)

\* the course records built for row i (counted from 0)
CourseRecordsOf(i) ==
    {j \in DOMAIN records.records :
        records.records[j].Type = "course" /\ records.records[j].SourceIndex = i}

\* C20: every row left by the header cleanup is the SourceIndex of exactly one
\* course record before the records with an empty title are removed, whether
\* its rule text is its own, shared with other rows, or empty
C20_EveryRowHasOneCourseRecord ==
    records.ran =>
        \A i \in 0..(Len(learn) - 1) : Cardinality(CourseRecordsOf(i)) = 1

\* The part of C20 that holds: a row has at most one course record, and it
\* has one unless its rule text is blank and an earlier row's is blank too.
C20_RowsWithRuleTextHaveOneCourseRecord ==
    records.ran =>
        \A i \in 0..(Len(learn) - 1) :
            /\ Cardinality(CourseRecordsOf(i)) <= 1
            /\ CourseRecordsOf(i) = {} <=>
                    /\ Strip(prescriptive(learn)[i + 1]) = <<>>
                    /\ \E h \in 1..i : Strip(prescriptive(learn)[h]) = <<>>

\* C20's failing case: two rows without rule text, each with a course title;
\* the second has no record
C20_SecondRowWithoutRuleLost ==
    /\ records.ran
    /\ Len(learn) = 2
    /\ learn[1][1] = NaN /\ learn[2][1] = NaN
    /\ learn[1][4] = StrCell(<<"T">>) /\ learn[2][4] = StrCell(<<"T">>)
    /\ Len(records.records) = 1
    /\ records.records[1].SourceIndex = 0

----------------------------------------------------------------------------
(* The claim that the two sheet parsers agree. *)

\* the interactive parser shows row r under role column c for some category
AppApplicable(r, c) == FactsOfCell(AppFacts(raw), r, c) # {}

\* the exporter lists row r under role column c
ExpListed(r, c) == FactsOfCell(ExpFacts, r, c) # {}

\* C21: the exporter lists a data row under a role column if and only if the
\* interactive parser coerces that cell to 1, 2 or 3 and so shows the row for
\* that column, whatever the cell holds (a float, a numeric string with
\* decimals, a padded string)
C21_ExporterAndInteractiveParserAgree ==
    exp.status = "done" =>
        \A r \in DataRows(raw), c \in RoleCols(raw) :
            /\ AppApplicable(r, c) <=> Level(DataCell(raw, r, c)) # 0
            /\ ExpListed(r, c) <=> AppApplicable(r, c)

\* The part of C21 that holds: a cell the exporter lists is one the
\* interactive parser coerces to 1, 2 or 3.
C21_ExporterListedCellsAreApplicable ==
    exp.status = "done" =>
        \A r \in DataRows(raw), c \in RoleCols(raw) :
            /\ AppApplicable(r, c) <=> Level(DataCell(raw, r, c)) # 0
            /\ ExpListed(r, c) => AppApplicable(r, c)

\* C21's failing case: the only role cell of a row is the float 1.0; the
\* interactive parser coerces it to 1, the exporter does not list the row
C21_FloatCellNotExported ==
    /\ exp.status = "done"
    /\ \E r \in DataRows(raw), c \in RoleCols(raw) :
            /\ DataCell(raw, r, c) = FloatCell(10)
            /\ Level(DataCell(raw, r, c)) = 1
            /\ AppApplicable(r, c)
            /\ ~ExpListed(r, c)

----------------------------------------------------------------------------
(* The curriculum claim. *)

\* the course records built for the member rows of the curriculum record cur
MemberCourses(cur) ==
    {c \in Range(records.records) :
        c.Type = "course" /\ c.SourceIndex \in Range(cur.SourceIndices)}

\* C22: the Groups, Practices and Roles of a curriculum record are the unions
\* of those of its member rows; the record is not removed with the records of
\* empty title; and for every selection, when a course record of one of its
\* member rows passes the filter, the curriculum record passes too
C22_CurriculumPassesWithItsCourses ==
    records.ran =>
        \A cur \in {r \in Range(records.records) : r.Type = "curriculum"} :
            /\ cur.Groups = UNION {c.Groups : c \in MemberCourses(cur)}
            /\ cur.Practices = UNION {c.Practices : c \in MemberCourses(cur)}
            /\ cur.Roles = UNION {c.Roles : c \in MemberCourses(cur)}
            /\ Cardinality(MemberCourses(cur)) = Len(cur.SourceIndices)
            /\ cur \in Range(records.cleaned)
            /\ cur \in Range(out_df)
            /\ sel2.ran =>
                    ((\E j \in Range(filtered_df) : out_df[j] \in MemberCourses(cur))
                        => \E k \in Range(filtered_df) : out_df[k] = cur)

\* C22's case: with a box ticked, one course of a curriculum passes and
\* another does not; the curriculum passes
C22_Witness ==
    /\ sel2.ran
    /\ sel2.selected_groups # {}
    /\ \E cur \in {r \in Range(records.records) : r.Type = "curriculum"} :
            /\ \E j \in Range(filtered_df) : out_df[j] \in MemberCourses(cur)
            /\ \E j \in DOMAIN out_df :
                    out_df[j] \in MemberCourses(cur) /\ j \notin Range(filtered_df)
            /\ \E k \in Range(filtered_df) : out_df[k] = cur

====
